---- MODULE Spec2Model ----
(***************************************************************************)
(* A model of the custls fingerprint pipeline: the per-target fingerprint  *)
(* cache (state.rs), the session-state tracker and the downgrade canary    *)
(* validator (security.rs) and the orchestrator's hook phases              *)
(* (orchestrator.rs, hooks.rs).                                            *)
(***************************************************************************)
EXTENDS Integers, Sequences, FiniteSets, TLC

(***************************************************************************)
(* Bounds of the model.                                                    *)
(***************************************************************************)
NumTargets == 3
MaxMaxSize == 2
MaxCount == 2
MaxClock == 1
MaxTrack == 1
NumSessionIds == 3
NumThreads == 2
MaxCalls == 2
NumCallTargets == 2
MaxMaxSessions == 2
MaxResume == 1
MaxFinished == 3
MaxCacheSize == 1
MaxTracked == 11
MaxHeld == 2
MaxConnections == 3
MaxPool == 2
MaxPadding == 2
MaxExtensions == 3
MaxItems == 2
MaxRecent == 2

Targets == 1..NumTargets

\* "No key": Option::None of a TargetKey.
NoKey == 0

\* ClientHelloConfig snapshots: the three fields the claims read.
Configs ==
  { [template |-> "Chrome130", padding_length |-> 0, random_seed |-> 0],
    [template |-> "Firefox135", padding_length |-> 256, random_seed |-> 7] }

\* GREASE code points and padding lengths that may be tracked.
GreaseInputs == {2570}
PaddingInputs == {256}

VARIABLES
  max_size,     \* FingerprintManager.max_size
  cache,        \* FingerprintManager.cache : TargetKey -> FingerprintEntry
  now,          \* the monotonic clock read by Instant::now()
  lastEvict,    \* observer: the eviction made by the last operation, if any
  calls,        \* observer: record_result calls per live entry, by outcome
  seen,         \* observer: targets ever passed to record_result
  lowRun,       \* observer: the current run of failing records of unseen targets
  max_sessions, \* SessionStateTracker.max_sessions
  sessions,     \* SessionStateTracker.sessions : SessionId -> SessionState
  order,        \* observer: the tracked ids, earliest recorded first
  baseline,     \* observer: the config each tracked id was first recorded with
  resumptions,  \* observer: the record_resumption calls made for each tracked id
  lastSessEvict,\* observer: the eviction made by the last record_session
  server_random,      \* validate_downgrade_protection: its three arguments
  expected_version,
  negotiated_version,
  result,             \* and what it returned
  customizer,         \* the customizer (or bare randomizer) shared by the connections
  connection_counter, \* DefaultCustomizer.connection_counter
  holder,             \* the thread owning each orchestrator mutex, or NoThread
  thread,             \* each thread's position in the call it is executing
  conn,               \* each connection's handshake as its host drives it
  issued,             \* the number of management calls issued so far
  selections,         \* observer: what select_rotated_template read and returned, in lock order
  finished,           \* observer: the connections the host is done with, oldest first
  greaseLog,          \* the values the caller passed to track_grease_value, in order
  paddingLog,         \* the values the caller passed to track_padding_length, in order
  held,               \* the configs get_working_fingerprint returned to the caller
  injected,           \* the GREASE values inject_grease returned, connection by connection
  connections,        \* the number of connections the caller has made
  call,               \* a call of one of the pure functions: its name and arguments
  ret                 \* what that call returned, Pending before it returns

cacheVars == <<max_size, cache, now, lastEvict, calls, seen, lowRun>>
trackerVars == <<max_sessions, sessions, order, baseline, resumptions, lastSessEvict>>
downgradeVars == <<server_random, expected_version, negotiated_version, result>>
hookVars ==
  <<customizer, connection_counter, holder, thread, conn, issued, selections,
    finished>>

callerVars == <<greaseLog, paddingLog, held, injected, connections>>

pureVars == <<call, ret>>

vars == <<cacheVars, trackerVars, downgradeVars, hookVars, callerVars, pureVars>>

(***************************************************************************)
(* Reputation scores. A score is the f64 quotient success / total; the     *)
(* model keeps it as the fraction num/den and compares fractions by cross  *)
(* multiplication, which agrees with the f64 comparison for counts far     *)
(* below 2^26.                                                             *)
(***************************************************************************)
RepLess(a, b) == a.num * b.den < b.num * a.den
RepEq(a, b) == a.num * b.den = b.num * a.den

\* 0.5, the neutral score.
Neutral == [num |-> 1, den |-> 2]

\* f64::MAX: above every score; 1/0 under cross multiplication.
F64Max == [num |-> 1, den |-> 0]

NoEvict == [victim |-> NoKey, before |-> <<>>]
NoRun == [n |-> 0, held |-> {}, fit |-> FALSE]

\* Remove key k from the map m.
MapRemove(m, k) == [x \in DOMAIN m \ {k} |-> m[x]]

\* The keys of a BTreeMap in iteration (ascending) order.
RECURSIVE SortedKeys(_)
SortedKeys(S) ==
  IF S = {} THEN <<>>
  ELSE LET m == CHOOSE x \in S : \A y \in S : x <= y
       IN <<m>> \o SortedKeys(S \ {m})

(***************************************************************************)
(* FingerprintEntry                                                        *)
(***************************************************************************)
FingerprintEntryNew(config, t) ==
  [ config |-> config,
    success_count |-> 0,
    failure_count |-> 0,
    reputation_score |-> Neutral,
    last_used |-> t,
    previous_grease_values |-> <<>>,
    previous_padding_lengths |-> <<>> ]

\* A reputation that would be the share of failures instead of successes.
update_reputation_swapped(e) ==
  LET total == e.success_count + e.failure_count
  IN IF total > 0
     THEN [e EXCEPT !.reputation_score = [num |-> e.failure_count, den |-> total]]
     ELSE [e EXCEPT !.reputation_score = Neutral]

update_reputation(e) ==
  LET total == e.success_count + e.failure_count
  IN IF total > 0
     THEN [e EXCEPT !.reputation_score = [num |-> e.success_count, den |-> total]]
     ELSE [e EXCEPT !.reputation_score = Neutral]

touch(e, t) == [e EXCEPT !.last_used = t]

\* Vec::push, then drop the front element once the length exceeds 10.
HistoryLimit == 10

\* A queue that would refuse the new value once it is full.
PushBoundedKeepOldest(h, v) ==
  IF Len(h) >= HistoryLimit THEN h ELSE Append(h, v)

PushBounded(h, v) ==
  LET pushed == Append(h, v)
  IN IF Len(pushed) > HistoryLimit THEN Tail(pushed) ELSE pushed

entry_track_grease_value(e, v) ==
  [e EXCEPT !.previous_grease_values = PushBounded(@, v)]

entry_track_padding_length(e, v) ==
  [e EXCEPT !.previous_padding_lengths = PushBounded(@, v)]

(***************************************************************************)
(* FingerprintManager                                                      *)
(***************************************************************************)
\* A scan that would prefer the highest reputation.
EvictStepHighest(c, st, key) ==
  LET entry == c[key]
      is_older == entry.last_used < st.time
  IN IF RepLess(st.score, entry.reputation_score)
        \/ (RepEq(entry.reputation_score, st.score) /\ is_older)
        \/ st.key = NoKey
     THEN [key |-> key, score |-> entry.reputation_score, time |-> entry.last_used]
     ELSE st

\* A scan that would look at last_used only (plain LRU).
EvictStepOldest(c, st, key) ==
  LET entry == c[key]
      is_older == entry.last_used < st.time
  IN IF st.key = NoKey \/ is_older
     THEN [key |-> key, score |-> entry.reputation_score, time |-> entry.last_used]
     ELSE st

\* One iteration of the scan: st = [key, score, time] is
\* (lowest_key, lowest_score, oldest_time).
EvictStep(c, st, key) ==
  LET entry == c[key]
      is_older == entry.last_used < st.time
  IN IF RepLess(entry.reputation_score, st.score)
        \/ (RepEq(entry.reputation_score, st.score) /\ is_older)
     THEN [key |-> key, score |-> entry.reputation_score, time |-> entry.last_used]
     ELSE st

RECURSIVE EvictScan(_, _, _)
EvictScan(c, st, keys) ==
  IF keys = <<>> THEN st
  ELSE EvictScan(c, EvictStep(c, st, Head(keys)), Tail(keys))

\* The key evict_lowest_reputation removes (NoKey for an empty cache); t is
\* the Instant::now() that initialises oldest_time.
EvictVictim(c, t) ==
  IF DOMAIN c = {} THEN NoKey
  ELSE EvictScan(c, [key |-> NoKey, score |-> F64Max, time |-> t],
                 SortedKeys(DOMAIN c)).key

evict_lowest_reputation(c, t) ==
  LET key == EvictVictim(c, t)
  IN IF key = NoKey THEN c ELSE MapRemove(c, key)

\* An insertion protocol that would evict whenever the cache is full.
NeedsEvictionWhenFull(c, max, target) == Cardinality(DOMAIN c) >= max

\* Whether record_result evicts before it inserts.
NeedsEviction(c, max, target) ==
  target \notin DOMAIN c /\ Cardinality(DOMAIN c) >= max

record_result(c, max, target, config, success, t) ==
  LET c1 == IF NeedsEviction(c, max, target)
            THEN evict_lowest_reputation(c, t) ELSE c
      e0 == IF target \in DOMAIN c1 THEN c1[target]
            ELSE FingerprintEntryNew(config, t)
      e1 == IF success
            THEN [e0 EXCEPT !.success_count = @ + 1]
            ELSE [e0 EXCEPT !.failure_count = @ + 1]
      e2 == touch(update_reputation(e1), t)
      e3 == [e2 EXCEPT !.config = config]
  IN (target :> e3) @@ c1

\* A lookup that would refresh the timestamp of every entry.
get_working_fingerprint_touch_all(c, target, t) ==
  IF target \in DOMAIN c THEN [k \in DOMAIN c |-> touch(c[k], t)] ELSE c

get_working_fingerprint(c, target, t) ==
  IF target \in DOMAIN c THEN [c EXCEPT ![target] = touch(@, t)] ELSE c

\* The value get_working_fingerprint returns: a clone of the config, or None.
None == "None"

WorkingFingerprint(c, target) ==
  IF target \in DOMAIN c THEN c[target].config ELSE None

invalidate_target(c, target) == MapRemove(c, target)

track_grease_value(c, target, v) ==
  IF target \in DOMAIN c
  THEN [c EXCEPT ![target] = entry_track_grease_value(@, v)] ELSE c

track_padding_length(c, target, v) ==
  IF target \in DOMAIN c
  THEN [c EXCEPT ![target] = entry_track_padding_length(@, v)] ELSE c

\* get_stats: (success_count, failure_count, reputation_score), or None.
get_stats(c, target) ==
  IF target \in DOMAIN c
  THEN <<c[target].success_count, c[target].failure_count,
         c[target].reputation_score>>
  ELSE None

\* Instant::now() is monotonic: a later reading is never smaller.
Ticks == {t \in {now, now + 1} : t <= MaxClock}

(***************************************************************************)
(* Observers                                                               *)
(***************************************************************************)
\* What the eviction scan reads of each entry.
Ranking(c) ==
  [k \in DOMAIN c |->
     [reputation_score |-> c[k].reputation_score, last_used |-> c[k].last_used]]

AllSuccess(c) == {k \in DOMAIN c : c[k].failure_count = 0}

CallsAfterRecord(c1, target, success) ==
  LET base == [k \in DOMAIN c1 \ {target} |-> calls[k]]
      old == IF target \in DOMAIN calls /\ target \in DOMAIN c1
             THEN calls[target] ELSE [s |-> 0, f |-> 0]
      new == IF success THEN [old EXCEPT !.s = @ + 1] ELSE [old EXCEPT !.f = @ + 1]
  IN (target :> new) @@ base

RunAfterRecord(target, success) ==
  IF ~success /\ target \notin seen
  THEN IF lowRun.n = 0
       THEN [ n |-> 1,
              held |-> AllSuccess(cache),
              fit |-> \/ Cardinality(DOMAIN cache) < max_size
                      \/ \E k \in DOMAIN cache :
                           RepLess(cache[k].reputation_score, [num |-> 1, den |-> 1]) ]
       ELSE [lowRun EXCEPT !.n = @ + 1]
  ELSE NoRun

(***************************************************************************)
(* Operations on the cache                                                 *)
(***************************************************************************)
CacheInit ==
  /\ max_size \in 0..MaxMaxSize
  /\ cache = <<>>
  /\ now = 0
  /\ lastEvict = NoEvict
  /\ calls = <<>>
  /\ seen = {}
  /\ lowRun = NoRun

RecordResultOf(target, config, success, t) ==
  /\ target \in DOMAIN cache =>
       cache[target].success_count + cache[target].failure_count < MaxCount
  /\ now' = t
  /\ cache' = record_result(cache, max_size, target, config, success, t)
  /\ lastEvict' = IF NeedsEviction(cache, max_size, target)
                     /\ EvictVictim(cache, t) # NoKey
                  THEN [victim |-> EvictVictim(cache, t), before |-> Ranking(cache)]
                  ELSE NoEvict
  /\ calls' = CallsAfterRecord(
                IF NeedsEviction(cache, max_size, target)
                THEN evict_lowest_reputation(cache, t) ELSE cache,
                target, success)
  /\ seen' = seen \cup {target}
  /\ lowRun' = RunAfterRecord(target, success)
  /\ UNCHANGED max_size

RecordResult ==
  \E target \in Targets, config \in Configs, success \in BOOLEAN, t \in Ticks :
    RecordResultOf(target, config, success, t)

GetWorkingFingerprintOf(target, t) ==
  /\ now' = t
  /\ cache' = get_working_fingerprint(cache, target, t)
  /\ lastEvict' = NoEvict
  /\ lowRun' = NoRun
  /\ UNCHANGED <<max_size, calls, seen>>

GetWorkingFingerprint ==
  \E target \in Targets, t \in Ticks : GetWorkingFingerprintOf(target, t)

InvalidateTargetOf(target) ==
  /\ cache' = invalidate_target(cache, target)
  /\ calls' = MapRemove(calls, target)
  /\ lastEvict' = NoEvict
  /\ lowRun' = NoRun
  /\ UNCHANGED <<max_size, now, seen>>

InvalidateTarget ==
  \E target \in Targets :
    InvalidateTargetOf(target)

ClearCache ==
  /\ cache' = <<>>
  /\ calls' = <<>>
  /\ lastEvict' = NoEvict
  /\ lowRun' = NoRun
  /\ UNCHANGED <<max_size, now, seen>>

TrackGreaseValue ==
  \E target \in Targets, v \in GreaseInputs :
    /\ target \in DOMAIN cache =>
         Len(cache[target].previous_grease_values) < MaxTrack
    /\ cache' = track_grease_value(cache, target, v)
    /\ lastEvict' = NoEvict
    /\ lowRun' = NoRun
    /\ UNCHANGED <<max_size, now, calls, seen>>

TrackPaddingLength ==
  \E target \in Targets, v \in PaddingInputs :
    /\ target \in DOMAIN cache =>
         Len(cache[target].previous_padding_lengths) < MaxTrack
    /\ cache' = track_padding_length(cache, target, v)
    /\ lastEvict' = NoEvict
    /\ lowRun' = NoRun
    /\ UNCHANGED <<max_size, now, calls, seen>>

\* The caller of the anti-repetition queues: one target, tracked before and
\* after it is recorded, past the limit of both queues.
HistoryTarget == 1
HistoryGreaseInputs == {2570, 6682}
HistoryPaddingInputs == {256, 512}

\* FingerprintManager::new(max_size) in the hands of a caller that has not
\* tracked or retrieved anything yet.
CallerCacheInit(sizes) ==
  /\ max_size \in sizes
  /\ cache = <<>> /\ now = 0 /\ lastEvict = NoEvict
  /\ calls = <<>> /\ seen = {} /\ lowRun = NoRun
  /\ greaseLog = <<>> /\ paddingLog = <<>> /\ held = <<>> /\ injected = <<>>
  /\ connections = 0

\* record_result creating the entry: both queues start empty.
HistoryRecord ==
  /\ HistoryTarget \notin DOMAIN cache
  /\ \E config \in Configs, success \in BOOLEAN :
       RecordResultOf(HistoryTarget, config, success, 0)
  /\ greaseLog' = <<>> /\ paddingLog' = <<>>
  /\ UNCHANGED <<held, injected, connections>>

HistoryTrackGrease ==
  /\ Len(greaseLog) + Len(paddingLog) < MaxTracked
  /\ \E v \in HistoryGreaseInputs :
       /\ cache' = track_grease_value(cache, HistoryTarget, v)
       /\ greaseLog' = Append(greaseLog, v)
  /\ lastEvict' = NoEvict /\ lowRun' = NoRun
  /\ UNCHANGED <<max_size, now, calls, seen>>
  /\ UNCHANGED <<paddingLog, held, injected, connections>>

HistoryTrackPadding ==
  /\ Len(greaseLog) + Len(paddingLog) < MaxTracked
  /\ \E v \in HistoryPaddingInputs :
       /\ cache' = track_padding_length(cache, HistoryTarget, v)
       /\ paddingLog' = Append(paddingLog, v)
  /\ lastEvict' = NoEvict /\ lowRun' = NoRun
  /\ UNCHANGED <<max_size, now, calls, seen>>
  /\ UNCHANGED <<greaseLog, held, injected, connections>>

\* What the caller holds after get_working_fingerprint: `shared` tells
\* whether the value lives in the cache entry or in an object of its own,
\* `config` is the value of that own object.  The observers: `origin` is the
\* value at the time of the call, `prev` the index of the previous copy of
\* the same target if no record_result for it came in between (else 0),
\* `stale` whether a record_result for the target came since, `touched`
\* whether the caller modified this copy.
Handle(target, shared, config, prev) ==
  [target |-> target, shared |-> shared, config |-> config, origin |-> config,
   prev |-> prev, stale |-> FALSE, touched |-> FALSE]

\* A retrieval that would hand out the stored config itself.
ShareConfig(target, config, prev) == Handle(target, TRUE, config, prev)

\* entry.config.clone(): ClientHelloConfig derives Clone over owned fields
\* (Vec, BTreeMap, integers), so the result is a new object.
CloneConfig(target, config, prev) == Handle(target, FALSE, config, prev)

\* The value the caller reads through a handle.
ValueOf(h) ==
  IF h.shared /\ h.target \in DOMAIN cache THEN cache[h.target].config
  ELSE h.config

\* The last copy of the target retrieved since its last record_result, or 0.
PrevCopy(target) ==
  LET same == {i \in DOMAIN held : held[i].target = target /\ ~held[i].stale}
  IN IF same = {} THEN 0 ELSE CHOOSE i \in same : \A j \in same : j <= i

\* record_result: the copies of the target retrieved before are now behind
\* the stored config (also those of a target that is evicted: it can only
\* come back through another record_result).
CopiesRecord ==
  \E target \in 1..NumCallTargets, config \in Configs, success \in BOOLEAN :
    /\ RecordResultOf(target, config, success, 0)
    /\ held' = [i \in DOMAIN held |->
                  IF held[i].target = target
                  THEN [held[i] EXCEPT !.stale = TRUE] ELSE held[i]]
    /\ UNCHANGED <<greaseLog, paddingLog, injected, connections>>

\* get_working_fingerprint: touch the entry, return a clone of its config.
CopiesRetrieve ==
  \E target \in 1..NumCallTargets :
    /\ Len(held) < MaxHeld
    /\ now' = 0
    /\ cache' = get_working_fingerprint(cache, target, 0)
    /\ lastEvict' = NoEvict /\ lowRun' = NoRun
    /\ held' = IF target \in DOMAIN cache
               THEN Append(held, CloneConfig(target, WorkingFingerprint(cache, target),
                                             PrevCopy(target)))
               ELSE held
    /\ UNCHANGED <<max_size, calls, seen>>
    /\ UNCHANGED <<greaseLog, paddingLog, injected, connections>>

\* The caller assigns to a field of a config it retrieved.
CopiesModify ==
  \E i \in DOMAIN held, config \in Configs :
    /\ config # ValueOf(held[i])
    /\ IF held[i].shared /\ held[i].target \in DOMAIN cache
       THEN /\ cache' = [cache EXCEPT ![held[i].target].config = config]
            /\ held' = [held EXCEPT ![i].touched = TRUE]
       ELSE /\ held' = [held EXCEPT ![i].config = config, ![i].touched = TRUE]
            /\ UNCHANGED cache
    /\ UNCHANGED <<max_size, now, lastEvict, calls, seen, lowRun>>
    /\ UNCHANGED <<greaseLog, paddingLog, injected, connections>>

CopiesInvalidate ==
  /\ \E target \in 1..NumCallTargets :
       /\ target \in DOMAIN cache
       /\ InvalidateTargetOf(target)
       /\ held' = [i \in DOMAIN held |->
                     IF held[i].target = target
                     THEN [held[i] EXCEPT !.stale = TRUE] ELSE held[i]]
  /\ UNCHANGED <<greaseLog, paddingLog, injected, connections>>

(***************************************************************************)
(* BrowserRandomizer::inject_grease and the caller's anti-repetition loop  *)
(***************************************************************************)
Range(s) == {s[i] : i \in DOMAIN s}

\* A randomizer of either level together with the pool of the template it is
\* used with: the start of the canonical pool 0x0a0a, 0x1a1a, 0x2a2a, ... or
\* a pool of one value.
GreaseSetups ==
  {[kind |-> "BrowserRandomizer", randomization_level |-> lv, grease_values |-> pool] :
     lv \in {"None", "Light"}, pool \in {<<2570>>, <<2570, 6682, 10794>>}}

\* A selection that would choose from the whole pool at once.
select_any_grease(available_values, previous_values) ==
  Range(available_values)

\* select_unused_grease: the values rng.choose can return.
select_unused_grease(available_values, previous_values) ==
  LET unused == {v \in Range(available_values) : v \notin Range(previous_values)}
  IN IF available_values = <<>> THEN {}
     ELSE IF unused # {} THEN unused
     ELSE Range(available_values)

\* inject_grease: the vectors of used values it can return.  Each of the two
\* probability draws can go either way (gen_f64 ranges over [0, 1], the
\* probabilities of the templates are 0.8 and 1.0); the extension value
\* avoids the recent values and the cipher value just chosen.
inject_grease(level, grease_values, previous_grease_values) ==
  IF level = "None" THEN {<<>>}
  ELSE LET first == select_unused_grease(grease_values, previous_grease_values)
           second(used) ==
             select_unused_grease(grease_values, previous_grease_values \o used)
       IN {<<>>}
          \cup {<<c>> : c \in first}
          \cup {<<e>> : e \in second(<<>>)}
          \cup UNION {{<<c, e>> : e \in second(<<c>>)} : c \in first}

\* FingerprintManager::get_previous_grease_values
get_previous_grease_values(c, target) ==
  IF target \in DOMAIN c THEN c[target].previous_grease_values ELSE <<>>

get_previous_padding_lengths(c, target) ==
  IF target \in DOMAIN c THEN c[target].previous_padding_lengths ELSE <<>>

RECURSIVE TrackAll(_, _, _)
\* for &grease_value in &used_grease { manager.track_grease_value(..) }
TrackAll(c, target, used) ==
  IF used = <<>> THEN c
  ELSE TrackAll(track_grease_value(c, target, Head(used)), target, Tail(used))

(***************************************************************************)
(* SessionStateTracker                                                     *)
(***************************************************************************)
\* SessionId(Vec<u8>): byte strings, ordered as Vec<u8> is (lexicographic).
SessionIds == {<<b>> : b \in 1..NumSessionIds}

Tickets == {<<170>>}

NoSession == <<>>
NoSessEvict == [victim |-> NoSession, oldest |-> NoSession]

LexLess(a, b) ==
  \E i \in 1..(Len(a) + 1) :
    /\ \A j \in 1..(i - 1) : j <= Len(b) /\ a[j] = b[j]
    /\ \/ i = Len(a) + 1 /\ Len(b) >= i
       \/ i <= Len(a) /\ i <= Len(b) /\ a[i] < b[i]

\* sessions.keys().next(): the smallest key of the BTreeMap.
FirstKey(s) == CHOOSE x \in DOMAIN s : \A y \in DOMAIN s \ {x} : LexLess(x, y)

SessionStateNew(config) ==
  [config |-> config, ticket |-> None, established |-> FALSE, resume_count |-> 0]

TrackerFull(s, max, id) == Cardinality(DOMAIN s) >= max /\ id \notin DOMAIN s

\* The key record_session removes before inserting, or NoSession.
SessionVictim(s, max, id) ==
  IF TrackerFull(s, max, id) /\ DOMAIN s # {} THEN FirstKey(s) ELSE NoSession

record_session(s, max, id, config) ==
  LET victim == SessionVictim(s, max, id)
      s1 == IF victim # NoSession THEN MapRemove(s, victim) ELSE s
  IN (id :> SessionStateNew(config)) @@ s1

get_session_config(s, id) == IF id \in DOMAIN s THEN s[id].config ELSE None

mark_established(s, id) ==
  IF id \in DOMAIN s THEN [s EXCEPT ![id].established = TRUE] ELSE s

record_ticket(s, id, ticket) ==
  IF id \in DOMAIN s THEN [s EXCEPT ![id].ticket = ticket] ELSE s

record_resumption(s, id) ==
  IF id \in DOMAIN s THEN [s EXCEPT ![id].resume_count = @ + 1] ELSE s

\* get_session_stats: (established, resume_count, has_ticket), or None.
get_session_stats(s, id) ==
  IF id \in DOMAIN s
  THEN <<s[id].established, s[id].resume_count, s[id].ticket # None>>
  ELSE None

remove_session(s, id) == MapRemove(s, id)

\* The sequence q without the element x.
SeqWithout(q, x) == SelectSeq(q, LAMBDA y : y # x)

TrackerInit ==
  /\ max_sessions \in 0..MaxMaxSessions
  /\ sessions = <<>>
  /\ order = <<>>
  /\ baseline = <<>>
  /\ resumptions = <<>>
  /\ lastSessEvict = NoSessEvict

RecordSessionOf(id, config) ==
  LET victim == SessionVictim(sessions, max_sessions, id)
      kept == IF victim # NoSession THEN SeqWithout(order, victim) ELSE order
  IN /\ sessions' = record_session(sessions, max_sessions, id, config)
     /\ lastSessEvict' = IF victim # NoSession
                         THEN [victim |-> victim, oldest |-> Head(order)]
                         ELSE NoSessEvict
     /\ order' = IF id \in DOMAIN sessions THEN kept ELSE Append(kept, id)
     /\ baseline' =
          LET b1 == IF victim # NoSession THEN MapRemove(baseline, victim)
                    ELSE baseline
          IN IF id \in DOMAIN sessions THEN b1 ELSE (id :> config) @@ b1
     /\ resumptions' =
          LET r1 == IF victim # NoSession THEN MapRemove(resumptions, victim)
                    ELSE resumptions
          IN IF id \in DOMAIN sessions THEN r1 ELSE (id :> 0) @@ r1
     /\ UNCHANGED max_sessions

RecordSession ==
  \E id \in SessionIds, config \in Configs :
    RecordSessionOf(id, config)

MarkEstablishedOf(id) ==
  /\ sessions' = mark_established(sessions, id)
  /\ lastSessEvict' = NoSessEvict
  /\ UNCHANGED <<max_sessions, order, baseline, resumptions>>

MarkEstablished ==
  \E id \in SessionIds :
    MarkEstablishedOf(id)

RecordTicketOf(id, ticket) ==
  /\ sessions' = record_ticket(sessions, id, ticket)
  /\ lastSessEvict' = NoSessEvict
  /\ UNCHANGED <<max_sessions, order, baseline, resumptions>>

RecordTicket ==
  \E id \in SessionIds, ticket \in Tickets :
    RecordTicketOf(id, ticket)

RecordResumptionOf(id) ==
  /\ id \in DOMAIN sessions => resumptions[id] < MaxResume
  /\ sessions' = record_resumption(sessions, id)
  /\ resumptions' = IF id \in DOMAIN sessions
                    THEN [resumptions EXCEPT ![id] = @ + 1] ELSE resumptions
  /\ lastSessEvict' = NoSessEvict
  /\ UNCHANGED <<max_sessions, order, baseline>>

RecordResumption ==
  \E id \in SessionIds :
    RecordResumptionOf(id)

RemoveSession ==
  \E id \in SessionIds :
    /\ sessions' = remove_session(sessions, id)
    /\ order' = SeqWithout(order, id)
    /\ baseline' = MapRemove(baseline, id)
    /\ resumptions' = MapRemove(resumptions, id)
    /\ lastSessEvict' = NoSessEvict
    /\ UNCHANGED max_sessions

ClearSessions ==
  /\ sessions' = <<>>
  /\ order' = <<>>
  /\ baseline' = <<>>
  /\ resumptions' = <<>>
  /\ lastSessEvict' = NoSessEvict
  /\ UNCHANGED max_sessions

(***************************************************************************)
(* validate_downgrade_protection                                           *)
(***************************************************************************)
TLS12_DOWNGRADE_CANARY == <<68, 79, 87, 78, 71, 82, 68, 1>>
TLS11_DOWNGRADE_CANARY == <<68, 79, 87, 78, 71, 82, 68, 0>>

ProtocolVersions ==
  {"SSLv3", "TLSv1_0", "TLSv1_1", "TLSv1_2", "TLSv1_3", "Unknown"}

Ok == "Ok"
Pending == "Pending"

\* A validator that would not tell the two canaries apart.
validate_downgrade_protection_any_canary(random, expected, negotiated) ==
  IF expected # "TLSv1_3" THEN Ok
  ELSE IF Len(random) # 32 THEN "PeerMisbehaved(IllegalTlsInnerPlaintext)"
  ELSE LET last_8_bytes == SubSeq(random, 25, 32)
       IN IF negotiated \in {"TLSv1_2", "TLSv1_1", "TLSv1_0"}
             /\ last_8_bytes \in {TLS12_DOWNGRADE_CANARY, TLS11_DOWNGRADE_CANARY}
          THEN "PeerMisbehaved(AttemptedDowngradeToTls12WhenTls13IsSupported)"
          ELSE Ok

\* A validator that would check the canaries whatever version was expected.
validate_downgrade_protection_unconditional(random, expected, negotiated) ==
  IF Len(random) # 32 THEN "PeerMisbehaved(IllegalTlsInnerPlaintext)"
  ELSE LET last_8_bytes == SubSeq(random, 25, 32)
       IN IF negotiated = "TLSv1_2" /\ last_8_bytes = TLS12_DOWNGRADE_CANARY
          THEN "PeerMisbehaved(AttemptedDowngradeToTls12WhenTls13IsSupported)"
          ELSE IF (negotiated = "TLSv1_1" \/ negotiated = "TLSv1_0")
                  /\ last_8_bytes = TLS11_DOWNGRADE_CANARY
          THEN "PeerMisbehaved(AttemptedDowngradeToTls12WhenTls13IsSupported)"
          ELSE Ok

\* A validator that would take the last 8 bytes of a random of any length.
validate_downgrade_protection_any_length(random, expected, negotiated) ==
  IF expected # "TLSv1_3" THEN Ok
  ELSE IF Len(random) < 8 THEN Ok
  ELSE LET last_8_bytes == SubSeq(random, Len(random) - 7, Len(random))
       IN IF negotiated = "TLSv1_2" /\ last_8_bytes = TLS12_DOWNGRADE_CANARY
          THEN "PeerMisbehaved(AttemptedDowngradeToTls12WhenTls13IsSupported)"
          ELSE IF (negotiated = "TLSv1_1" \/ negotiated = "TLSv1_0")
                  /\ last_8_bytes = TLS11_DOWNGRADE_CANARY
          THEN "PeerMisbehaved(AttemptedDowngradeToTls12WhenTls13IsSupported)"
          ELSE Ok

\* The validator: Ok, or the PeerMisbehaved error it returns.
validate_downgrade_protection(random, expected, negotiated) ==
  IF expected # "TLSv1_3" THEN Ok
  ELSE IF Len(random) # 32 THEN "PeerMisbehaved(IllegalTlsInnerPlaintext)"
  ELSE LET last_8_bytes == SubSeq(random, 25, 32)
       IN IF negotiated = "TLSv1_2" /\ last_8_bytes = TLS12_DOWNGRADE_CANARY
          THEN "PeerMisbehaved(AttemptedDowngradeToTls12WhenTls13IsSupported)"
          ELSE IF (negotiated = "TLSv1_1" \/ negotiated = "TLSv1_0")
                  /\ last_8_bytes = TLS11_DOWNGRADE_CANARY
          THEN "PeerMisbehaved(AttemptedDowngradeToTls12WhenTls13IsSupported)"
          ELSE Ok

\* Inputs: every 8-byte tail that differs from a canary in at most one
\* position, behind a constant prefix, at several lengths.
TailBytes == {0, 1, 68, 255}
RandomLengths == {0, 7, 31, 32, 33}
PrefixBytes == {0, 68}

Tails ==
  {TLS12_DOWNGRADE_CANARY, TLS11_DOWNGRADE_CANARY}
  \cup {[TLS12_DOWNGRADE_CANARY EXCEPT ![i] = b] : i \in 1..8, b \in TailBytes}

MakeRandom(len, fill, tail) ==
  [i \in 1..len |-> IF i > len - 8 /\ len >= 8 THEN tail[i - (len - 8)] ELSE fill]

DowngradeInit ==
  /\ server_random \in
       {MakeRandom(len, fill, tail) :
          len \in RandomLengths, fill \in PrefixBytes, tail \in Tails}
  /\ expected_version \in ProtocolVersions
  /\ negotiated_version \in ProtocolVersions
  /\ result = Pending

Validate ==
  /\ result = Pending
  /\ result' = validate_downgrade_protection(
                 server_random, expected_version, negotiated_version)
  /\ UNCHANGED <<server_random, expected_version, negotiated_version>>

(***************************************************************************)
(* DefaultCustomizer and the four hook phases                              *)
(***************************************************************************)
Threads == 1..NumThreads
NoThread == 0

Mutexes == {"connection_counter", "randomizer", "cache", "session_tracker"}

RotationPolicies == {"None", "RoundRobin", "Random", "WeightedRandom"}

DefaultRotationTemplates == <<"Chrome130", "Firefox135", "Safari17", "Edge130">>

RotationLists == {<<>>, <<"Chrome130", "Firefox135">>}

CustlsErrors == {"HookError", "ValidationError"}

\* From<CustlsError> for Error: every custls error becomes Error::General.
Into(e) ==
  IF e = "HookError" THEN "General(custls error: Hook error)"
  ELSE "General(custls error: Validation error)"

\* The weights of WeightedRandom are taken out of 100.
WeightRange == 100

\* counter * 2654435761 reduced modulo n.  The product is taken digit-wise
\* (2654435761 = 26544 * 100000 + 35761) so that it stays in range; it equals
\* the code's value whenever the 64-bit product does not wrap.
MulMod(counter, n) ==
  ((counter % n) * (((26544 % n) * (100000 % n) + 35761) % n)) % n

\* templates.iter().position(..).unwrap_or(dflt), zero-based.
PositionOr(templates, x, dflt) ==
  IF \E i \in 1..Len(templates) : templates[i] = x
  THEN (CHOOSE i \in 1..Len(templates) :
          templates[i] = x /\ \A j \in 1..(i - 1) : templates[j] # x) - 1
  ELSE dflt

RotationTemplates(cfg) ==
  IF cfg.rotation_templates = <<>> THEN DefaultRotationTemplates
  ELSE cfg.rotation_templates

\* The part of select_rotated_template that follows the counter update.
\* A round robin that would start at the second template of the list.
SelectByPolicyFromSecond(cfg, counter) ==
  LET templates == RotationTemplates(cfg)
  IN IF cfg.rotation_policy = "None" THEN cfg.template
     ELSE templates[((counter + 1) % Len(templates)) + 1]

\* The match on the rotation policy, given the three remainders it uses:
\* counter % n, (counter * 2654435761) % n and (counter * 2654435761) % 100.
SelectByIndex(cfg, roundRobin, random, weight) ==
  LET templates == RotationTemplates(cfg)
      n == Len(templates)
      index ==
        CASE cfg.rotation_policy = "RoundRobin" -> roundRobin
          [] cfg.rotation_policy = "Random" -> random
          [] cfg.rotation_policy = "WeightedRandom" ->
               IF weight < 40 THEN PositionOr(templates, "Chrome130", 0)
               ELSE IF weight < 65 THEN PositionOr(templates, "Firefox135", 1 % n)
               ELSE IF weight < 85 THEN PositionOr(templates, "Safari17", 2 % n)
               ELSE PositionOr(templates, "Edge130", 3 % n)
  IN IF cfg.rotation_policy = "None" THEN cfg.template ELSE templates[index + 1]

SelectByPolicy(cfg, counter) ==
  LET n == Len(RotationTemplates(cfg))
  IN SelectByIndex(cfg, counter % n, MulMod(counter, n), MulMod(counter, WeightRange))

\* usize::wrapping_add(1).  The counter advances at most three times per
\* connection, so the wrap at the machine-word limit is out of reach here.
wrapping_add(counter) == counter + 1

\* ErrorReturningCustomizer: every phase fails iff it is the chosen phase.
ErrorReturningHook(cfg, phase) ==
  IF cfg.error_phase = phase THEN Into(cfg.error) ELSE Ok

\* A host that would go on to the next phase whatever the phase returned.
DriverAfterIgnoringErrors(c, phase, r) ==
  [c EXCEPT !.results = Append(@, r),
            !.status = IF phase = 4 THEN "sent" ELSE "running"]

\* The host's handling of a phase result: an error ends the handshake with
\* that error, a successful phase 4 sends the ClientHello.
DriverAfter(c, phase, r) ==
  [c EXCEPT !.results = Append(@, r),
            !.status = IF r # Ok THEN "aborted"
                       ELSE IF phase = 4 THEN "sent" ELSE "running",
            !.error = IF r # Ok THEN r ELSE @]

\* A host that would enter the phase it has just left once more.
NextPhaseReentered(c) == IF c.invoked = <<>> THEN 1 ELSE Len(c.invoked)

\* The phase the host invokes next on a connection.
NextPhase(c) == Len(c.invoked) + 1

Idle == [pc |-> "idle", phase |-> 0, want |-> None, current |-> 0]

\* invoked/results: the phases the host has called and what they returned;
\* selected/used: per phase, the template select_rotated_template returned
\* and the template handed to the randomizer.
NewConn ==
  [status |-> "running", error |-> None, invoked |-> <<>>, results |-> <<>>,
   selected |-> <<>>, used |-> <<>>]

Invoke(c, phase) == [c EXCEPT !.invoked = Append(@, phase)]

Held(t) == {m \in Mutexes : holder[m] = t}

\* The mutex thread t is blocked on or about to lock, or None.
WaitsFor(t) ==
  CASE thread[t].pc = "select" -> "connection_counter"
    [] thread[t].pc = "rand_lock" -> "randomizer"
    [] thread[t].pc = "mgmt_lock" -> thread[t].want
    [] OTHER -> None

\* A guard going out of scope unlocks its mutex.
DropGuard(h, m) == [h EXCEPT ![m] = NoThread]

\* A counter_guard that would outlive the block it is declared in.
CounterGuardKept(h) == h

\* counter_guard lives only inside the block that reads and bumps the
\* counter: it is gone before the template is selected and used.
CounterGuardDropped(h) == DropGuard(h, "connection_counter")

DefaultConfigs ==
  {[kind |-> "DefaultCustomizer", template |-> tp,
    randomization_level |-> lv, enable_cache |-> ec, max_cache_size |-> 1,
    rotation_policy |-> rp, rotation_templates |-> rl,
    error_phase |-> 0, error |-> None] :
     tp \in {None, "Chrome130"}, lv \in {"None", "Light"}, ec \in BOOLEAN,
     rp \in RotationPolicies, rl \in RotationLists}

ErrorReturningConfigs ==
  {[kind |-> "ErrorReturningCustomizer", template |-> None,
    randomization_level |-> "None", enable_cache |-> FALSE, max_cache_size |-> 0,
    rotation_policy |-> "None", rotation_templates |-> <<>>,
    error_phase |-> ph, error |-> e] : ph \in 1..4, e \in CustlsErrors}

\* DefaultCustomizer::new: only the fields that change what the phases do
\* are varied; a fixed template is irrelevant under rotation.
HookConfigs ==
  {c \in DefaultConfigs :
     /\ c.rotation_policy = "None" => c.rotation_templates = <<>>
     /\ c.rotation_policy # "None" => c.template = None}
  \cup ErrorReturningConfigs

HooksStart(configs) ==
  /\ customizer \in configs
  /\ connection_counter = 0
  /\ holder = [m \in Mutexes |-> NoThread]
  /\ thread = [t \in Threads |-> Idle]
  /\ conn = [t \in Threads |-> NewConn]
  /\ issued = 0 /\ selections = <<>> /\ finished = <<>>
  /\ max_size = customizer.max_cache_size /\ cache = <<>> /\ now = 0
  /\ lastEvict = NoEvict /\ calls = <<>> /\ seen = {} /\ lowRun = NoRun
  /\ max_sessions = customizer.max_cache_size /\ sessions = <<>> /\ order = <<>>
  /\ baseline = <<>> /\ resumptions = <<>> /\ lastSessEvict = NoSessEvict

HooksInit == HooksStart(HookConfigs)

CanInvoke(t, phase) ==
  /\ thread[t].pc = "idle"
  /\ conn[t].status = "running"
  /\ NextPhase(conn[t]) = phase

\* on_config_resolve: under rotation it calls select_rotated_template and
\* drops the result; it always returns Ok.
OnConfigResolve(t) ==
  /\ customizer.kind = "DefaultCustomizer"
  /\ CanInvoke(t, 1)
  /\ IF customizer.rotation_policy # "None"
     THEN /\ thread' = [thread EXCEPT ![t] = [pc |-> "select", phase |-> 1, want |-> None, current |-> 0]]
          /\ conn' = [conn EXCEPT ![t] = Invoke(@, 1)]
     ELSE /\ conn' = [conn EXCEPT ![t] = DriverAfter(Invoke(@, 1), 1, Ok)]
          /\ UNCHANGED thread
  /\ UNCHANGED <<customizer, connection_counter, holder, issued, selections, finished>>
  /\ UNCHANGED <<cacheVars, trackerVars, downgradeVars, pureVars, callerVars>>

\* The common head of on_components_ready and on_struct_ready: pick the
\* template (rotated or fixed), return Ok when there is none, otherwise go on
\* to lock the randomizer.
EnterTemplatePhase(t, phase) ==
  /\ customizer.kind = "DefaultCustomizer"
  /\ CanInvoke(t, phase)
  /\ IF customizer.rotation_policy # "None"
     THEN /\ thread' = [thread EXCEPT ![t] = [pc |-> "select", phase |-> phase, want |-> None, current |-> 0]]
          /\ conn' = [conn EXCEPT ![t] = Invoke(@, phase)]
     ELSE IF customizer.template # None
     THEN /\ thread' = [thread EXCEPT ![t] = [pc |-> "rand_lock", phase |-> phase, want |-> None, current |-> 0]]
          /\ conn' = [conn EXCEPT ![t] =
                        [Invoke(@, phase) EXCEPT
                           !.selected = (phase :> customizer.template) @@ @]]
     ELSE /\ conn' = [conn EXCEPT ![t] = DriverAfter(Invoke(@, phase), phase, Ok)]
          /\ UNCHANGED thread
  /\ UNCHANGED <<customizer, connection_counter, holder, issued, selections, finished>>
  /\ UNCHANGED <<cacheVars, trackerVars, downgradeVars, pureVars, callerVars>>

OnComponentsReady(t) == EnterTemplatePhase(t, 2)

OnStructReady(t) == EnterTemplatePhase(t, 3)

TransformWireBytes(t) ==
  /\ customizer.kind = "DefaultCustomizer"
  /\ CanInvoke(t, 4)
  /\ conn' = [conn EXCEPT ![t] = DriverAfter(Invoke(@, 4), 4, Ok)]
  /\ UNCHANGED <<customizer, connection_counter, holder, thread, issued, selections, finished>>
  /\ UNCHANGED <<cacheVars, trackerVars, downgradeVars, pureVars, callerVars>>

ErrorReturningPhase(t) ==
  /\ customizer.kind = "ErrorReturningCustomizer"
  /\ \E phase \in 1..4 :
       /\ CanInvoke(t, phase)
       /\ conn' = [conn EXCEPT ![t] =
                     DriverAfter(Invoke(@, phase), phase,
                                 ErrorReturningHook(customizer, phase))]
  /\ UNCHANGED <<customizer, connection_counter, holder, thread, issued, selections, finished>>
  /\ UNCHANGED <<cacheVars, trackerVars, downgradeVars, pureVars, callerVars>>

\* A lock that would let a thread in while another thread holds the counter.
LockCounterUnguarded(t) ==
  /\ thread[t].pc = "select"
  /\ holder' = [holder EXCEPT !["connection_counter"] = t]
  /\ thread' = [thread EXCEPT ![t].pc = "counter_locked"]
  /\ UNCHANGED <<customizer, connection_counter, conn, issued, selections, finished>>
  /\ UNCHANGED <<cacheVars, trackerVars, downgradeVars, pureVars, callerVars>>

\* select_rotated_template: self.connection_counter.lock()
LockCounter(t) ==
  /\ thread[t].pc = "select"
  /\ holder["connection_counter"] = NoThread
  /\ holder' = [holder EXCEPT !["connection_counter"] = t]
  /\ thread' = [thread EXCEPT ![t].pc = "counter_locked"]
  /\ UNCHANGED <<customizer, connection_counter, conn, issued, selections, finished>>
  /\ UNCHANGED <<cacheVars, trackerVars, downgradeVars, pureVars, callerVars>>

\* select_rotated_template: let current = *counter_guard
ReadCounter(t) ==
  /\ thread[t].pc = "counter_locked"
  /\ thread' = [thread EXCEPT ![t].pc = "counter_read", ![t].current = connection_counter]
  /\ UNCHANGED <<customizer, connection_counter, holder, conn, issued, selections, finished>>
  /\ UNCHANGED <<cacheVars, trackerVars, downgradeVars, pureVars, callerVars>>

\* select_rotated_template: store current.wrapping_add(1), drop the guard at
\* the end of the block, select by policy.  Phase 1 then returns Ok; phases 2
\* and 3 resolve the template and go on to lock the randomizer.
BumpCounter(t) ==
  /\ thread[t].pc = "counter_read"
  /\ LET current == thread[t].current
         phase == thread[t].phase
         picked == [conn[t] EXCEPT
                      !.selected = (phase :> SelectByPolicy(customizer, current)) @@ @]
     IN /\ connection_counter' = wrapping_add(current)
        /\ selections' = Append(selections, [phase |-> phase,
                                             counter |-> current,
                                             template |-> picked.selected[phase]])
        /\ holder' = CounterGuardDropped(holder)
        /\ IF phase = 1
           THEN /\ thread' = [thread EXCEPT ![t] = Idle]
                /\ conn' = [conn EXCEPT ![t] = DriverAfter(picked, 1, Ok)]
           ELSE /\ thread' = [thread EXCEPT ![t].pc = "rand_lock", ![t].current = 0]
                /\ conn' = [conn EXCEPT ![t] = picked]
  /\ UNCHANGED <<customizer, issued, finished>>
  /\ UNCHANGED <<cacheVars, trackerVars, downgradeVars, pureVars, callerVars>>

\* on_components_ready / on_struct_ready: self.randomizer.lock()
LockRandomizer(t) ==
  /\ thread[t].pc = "rand_lock"
  /\ holder["randomizer"] = NoThread
  /\ holder' = [holder EXCEPT !["randomizer"] = t]
  /\ thread' = [thread EXCEPT ![t].pc = "rand_locked"]
  /\ UNCHANGED <<customizer, connection_counter, conn, issued, selections, finished>>
  /\ UNCHANGED <<cacheVars, trackerVars, downgradeVars, pureVars, callerVars>>

\* The body under the randomizer guard: phase 2 shuffles and injects GREASE
\* with the template unless the level is None, phase 3 draws the padding
\* length from the template; the guard is dropped on return.
Randomize(t) ==
  /\ thread[t].pc = "rand_locked"
  /\ LET phase == thread[t].phase
         template == conn[t].selected[phase]
         applied == IF phase = 3 \/ customizer.randomization_level # "None"
                    THEN [conn[t] EXCEPT !.used = (phase :> template) @@ @]
                    ELSE conn[t]
     IN conn' = [conn EXCEPT ![t] = DriverAfter(applied, phase, Ok)]
  /\ holder' = DropGuard(holder, "randomizer")
  /\ thread' = [thread EXCEPT ![t] = Idle]
  /\ UNCHANGED <<customizer, connection_counter, issued, selections, finished>>
  /\ UNCHANGED <<cacheVars, trackerVars, downgradeVars, pureVars, callerVars>>

\* A management call that would go on to the cache or the tracker whether or
\* not the customizer was built with them.
BeginCallWithoutCheck(t) ==
  /\ customizer.kind = "DefaultCustomizer"
  /\ thread[t].pc = "idle"
  /\ issued < MaxCalls
  /\ issued' = issued + 1
  /\ \E m \in {"cache", "session_tracker"} :
       thread' = [thread EXCEPT ![t] = [pc |-> "mgmt_lock", phase |-> 0, want |-> m, current |-> 0]]
  /\ UNCHANGED <<customizer, connection_counter, holder, conn, selections, finished>>
  /\ UNCHANGED <<cacheVars, trackerVars, downgradeVars, pureVars, callerVars>>

\* A management call is entered: without cache and tracker (enable_cache =
\* false) it returns at once, otherwise it goes on to lock the one it needs.
BeginCall(t) ==
  /\ customizer.kind = "DefaultCustomizer"
  /\ thread[t].pc = "idle"
  /\ issued < MaxCalls
  /\ issued' = issued + 1
  /\ \E m \in {"cache", "session_tracker"} :
       IF customizer.enable_cache
       THEN thread' = [thread EXCEPT ![t] = [pc |-> "mgmt_lock", phase |-> 0, want |-> m, current |-> 0]]
       ELSE UNCHANGED thread
  /\ UNCHANGED <<customizer, connection_counter, holder, conn, selections, finished>>
  /\ UNCHANGED <<cacheVars, trackerVars, downgradeVars, pureVars, callerVars>>

LockManaged(t) ==
  /\ thread[t].pc = "mgmt_lock"
  /\ holder[thread[t].want] = NoThread
  /\ holder' = [holder EXCEPT ![thread[t].want] = t]
  /\ thread' = [thread EXCEPT ![t].pc = "mgmt_locked"]
  /\ UNCHANGED <<customizer, connection_counter, conn, issued, selections, finished>>
  /\ UNCHANGED <<cacheVars, trackerVars, downgradeVars, pureVars, callerVars>>

\* The arguments the connections pass to the management calls.
CallTargets == 1..NumCallTargets
CallSessionIds == {<<b>> : b \in 1..NumCallTargets}
CallConfig == [template |-> "Chrome130", padding_length |-> 0, random_seed |-> 0]

\* The end of a management call: the guard is dropped on return.
Guarded(t, m) ==
  /\ thread[t].pc = "mgmt_locked"
  /\ thread[t].want = m
  /\ holder' = DropGuard(holder, m)
  /\ thread' = [thread EXCEPT ![t] = Idle]
  /\ UNCHANGED <<customizer, connection_counter, conn, issued, selections, finished,
               downgradeVars, pureVars, callerVars>>

CallRecordHandshakeResult(t) ==
  /\ Guarded(t, "cache")
  /\ \E target \in CallTargets, success \in BOOLEAN, at \in Ticks :
       RecordResultOf(target, CallConfig, success, at)
  /\ UNCHANGED trackerVars

CallClearCache(t) ==
  Guarded(t, "cache") /\ ClearCache /\ UNCHANGED trackerVars

CallInvalidateTarget(t) ==
  /\ Guarded(t, "cache")
  /\ \E target \in CallTargets : InvalidateTargetOf(target)
  /\ UNCHANGED trackerVars

CallRecordSession(t) ==
  /\ Guarded(t, "session_tracker")
  /\ \E id \in CallSessionIds : RecordSessionOf(id, CallConfig)
  /\ UNCHANGED cacheVars

CallGetSessionConfig(t) ==
  Guarded(t, "session_tracker") /\ UNCHANGED <<cacheVars, trackerVars>>

CallMarkSessionEstablished(t) ==
  /\ Guarded(t, "session_tracker")
  /\ \E id \in CallSessionIds : MarkEstablishedOf(id)
  /\ UNCHANGED cacheVars

CallRecordSessionTicket(t) ==
  /\ Guarded(t, "session_tracker")
  /\ \E id \in CallSessionIds, ticket \in Tickets : RecordTicketOf(id, ticket)
  /\ UNCHANGED cacheVars

CallRecordSessionResumption(t) ==
  /\ Guarded(t, "session_tracker")
  /\ \E id \in CallSessionIds : RecordResumptionOf(id)
  /\ UNCHANGED cacheVars

\* The host is done with its connection (sent, or dropped between phases)
\* and opens the next one on the same customizer.
NewConnection(t) ==
  /\ thread[t].pc = "idle"
  /\ conn[t].invoked # <<>>
  /\ Len(finished) < MaxFinished
  /\ finished' = Append(finished, conn[t])
  /\ conn' = [conn EXCEPT ![t] = NewConn]
  /\ UNCHANGED <<customizer, connection_counter, holder, thread, issued, selections>>
  /\ UNCHANGED <<cacheVars, trackerVars, downgradeVars, pureVars, callerVars>>

\* Round-robin rotation over lists of distinct templates.
DistinctRotationLists ==
  {<<>>, <<"Chrome130", "Firefox135">>, <<"Chrome130", "Firefox135", "Safari17">>}

RoundRobinConfigs ==
  {[kind |-> "DefaultCustomizer", template |-> None,
    randomization_level |-> lv, enable_cache |-> FALSE, max_cache_size |-> 1,
    rotation_policy |-> "RoundRobin", rotation_templates |-> rl,
    error_phase |-> 0, error |-> None] :
     lv \in {"None", "Light"}, rl \in DistinctRotationLists}

\* One host thread opening its connections one after the other.
RotationThreads == {1}

RotationNext ==
  \E t \in RotationThreads :
    \/ OnConfigResolve(t)
    \/ OnComponentsReady(t)
    \/ OnStructReady(t)
    \/ TransformWireBytes(t)
    \/ LockCounter(t)
    \/ ReadCounter(t)
    \/ BumpCounter(t)
    \/ LockRandomizer(t)
    \/ Randomize(t)
    \/ NewConnection(t)

\* Customizers with a cache and a session tracker of every small capacity.
ManagedConfigs ==
  {[kind |-> "DefaultCustomizer", template |-> "Chrome130",
    randomization_level |-> "Light", enable_cache |-> TRUE, max_cache_size |-> n,
    rotation_policy |-> "None", rotation_templates |-> <<>>,
    error_phase |-> 0, error |-> None] : n \in 0..MaxCacheSize}

\* Threads calling the size-changing management calls concurrently.
ManagedNext ==
  \E t \in Threads :
    \/ BeginCall(t)
    \/ LockManaged(t)
    \/ CallRecordHandshakeResult(t)
    \/ CallClearCache(t)
    \/ CallInvalidateTarget(t)
    \/ CallRecordSession(t)

HooksIdle ==
  /\ customizer = [kind |-> None] /\ connection_counter = 0
  /\ holder = [m \in Mutexes |-> NoThread] /\ thread = <<>> /\ conn = <<>>
  /\ issued = 0 /\ selections = <<>> /\ finished = <<>>

(***************************************************************************)
(* Calls of the pure functions: arguments in `call`, result in `ret`       *)
(***************************************************************************)
NoReturn == [done |-> FALSE]
Return(v) == [done |-> TRUE, value |-> v]

\* Sequences over S of length at most n.
SeqsUpTo(S, n) == UNION {[1..k -> S] : k \in 0..n}

\* Option<T> as a sequence: <<>> is None, <<v>> is Some(v).
SelectCalls ==
  {[fn |-> "select_unused_grease", available_values |-> pool, previous_values |-> recent] :
     pool \in SeqsUpTo({2570, 6682}, MaxPool),
     recent \in SeqsUpTo({2570, 6682, 10794}, MaxRecent)}

SelectUnusedGrease ==
  /\ call.fn = "select_unused_grease" /\ ~ret.done
  /\ LET choices == select_unused_grease(call.available_values, call.previous_values)
     IN IF choices = {} THEN ret' = Return(<<>>)
        ELSE \E v \in choices : ret' = Return(<<v>>)
  /\ UNCHANGED call

\* The padding-length sampler (BrowserRandomizer::generate_padding_len).
\* Probabilities and the values of gen_f64 are percentages.
Fractions == {0, 50, 100}

max_attempts == 5

clamp(value, min, max) ==
  IF value < min THEN min ELSE IF value > max THEN max ELSE value

gen_range(min, max) ==
  IF min >= max THEN {min} ELSE {min + r : r \in 0..(max - min)}

nearest_power_of_2(value, min, max) ==
  LET POWERS_OF_2 == {0, 1, 2, 4, 8, 16, 32, 64, 128, 256, 512, 1024, 2048}
      valid_powers == {p \in POWERS_OF_2 : p >= min /\ p <= max}
      diff(p) == IF p > value THEN p - value ELSE value - p
  IN IF valid_powers = {} THEN clamp(value, min, max)
     ELSE CHOOSE p \in valid_powers :
            \A q \in valid_powers : diff(p) < diff(q) \/ (diff(p) = diff(q) /\ p <= q)

\* Cumulative-distribution sampling of the PMF for one value of gen_f64.
RECURSIVE SampleFrom(_, _, _, _)
SampleFrom(pmf, i, cumulative, random_value) ==
  IF i > Len(pmf) THEN pmf[1].len
  ELSE IF random_value <= cumulative + pmf[i].prob THEN pmf[i].len
  ELSE SampleFrom(pmf, i + 1, cumulative + pmf[i].prob, random_value)

\* Every outcome of one call: the candidates the loop drew, in order, and the
\* length returned.
generate_padding_len(level, dist, previous_padding_lengths) ==
  LET range == dist.max_length - dist.min_length
      use_pmf == CASE level = "Light" -> {f < 90 : f \in Fractions}
                   [] level = "Medium" -> {f < 70 : f \in Fractions}
                   [] level = "High" -> {f < 50 : f \in Fractions}
      \* the lengths one pass of the loop can draw
      length(pmfMode) ==
        IF pmfMode /\ dist.pmf # <<>>
        THEN {SampleFrom(dist.pmf, 1, 0, r) : r \in Fractions}
        ELSE IF range = 0 THEN {dist.min_length}
        ELSE UNION {{IF f < dist.power_of_2_bias
                     THEN nearest_power_of_2(dist.min_length + g, dist.min_length, dist.max_length)
                     ELSE dist.min_length + g : f \in Fractions} : g \in gen_range(0, range)}
      clamped(pmfMode) == {clamp(l, dist.min_length, dist.max_length) : l \in length(pmfMode)}
      \* the length drawn after max_attempts passes found nothing new
      fallback ==
        IF range = 0 THEN {dist.min_length}
        ELSE {clamp(dist.min_length + g, dist.min_length, dist.max_length) :
                g \in gen_range(0, range)}
  IN IF level = "None"
     THEN {[candidates |-> <<>>,
            value |-> IF dist.pmf # <<>> THEN dist.pmf[1].len ELSE 0]}
     ELSE UNION {
            LET used == {c \in clamped(m) : c \in Range(previous_padding_lengths)}
            IN {[candidates |-> r \o <<a>>, value |-> a] :
                  r \in SeqsUpTo(used, max_attempts - 1), a \in clamped(m) \ used}
               \cup {[candidates |-> r, value |-> v] :
                       r \in [1..max_attempts -> used], v \in fallback}
            : m \in use_pmf}

PaddingCalls ==
  LET PaddingDistributions ==
        {[pmf |-> pmf, min_length |-> lo, max_length |-> hi, power_of_2_bias |-> b] :
           pmf \in {<<>>, <<[len |-> 1, prob |-> 50], [len |-> 2, prob |-> 50]>>,
                    <<[len |-> 4, prob |-> 100]>>},
           lo \in 0..MaxPadding, hi \in 0..MaxPadding, b \in {0, 50}}
  IN {[fn |-> "generate_padding_len", level |-> level, padding_distribution |-> dist,
       previous_padding_lengths |-> recent] :
        level \in {"None", "Light", "Medium", "High"},
        dist \in {d \in PaddingDistributions : d.min_length <= d.max_length},
        recent \in SeqsUpTo(0..MaxPadding, MaxRecent)}

GeneratePaddingLen ==
  /\ call.fn = "generate_padding_len" /\ ~ret.done
  /\ \E out \in generate_padding_len(call.level, call.padding_distribution,
                                     call.previous_padding_lengths) :
       ret' = Return(out)
  /\ UNCHANGED call

\* Extension shuffling (BrowserRandomizer::shuffle_extensions). The body is a
\* placeholder: at every level it returns Ok and never touches the list.
shuffle_extensions(level, extensions) ==
  IF level = "None" THEN [result |-> Ok, extensions |-> extensions]
  ELSE [result |-> Ok, extensions |-> extensions]

\* Extension lists without duplicates, with and without pre_shared_key.
ShuffleCalls ==
  LET types == {"server_name", "key_share", "pre_shared_key"}
      lists == {l \in SeqsUpTo(types, MaxExtensions) :
                  \A i, j \in DOMAIN l : i # j => l[i] # l[j]}
  IN {[fn |-> "shuffle_extensions", level |-> level, extensions |-> l] :
        level \in {"None", "Light", "Medium", "High"}, l \in lists}

ShuffleExtensions ==
  /\ call.fn = "shuffle_extensions" /\ ~ret.done
  /\ ret' = Return(shuffle_extensions(call.level, call.extensions))
  /\ UNCHANGED call

\* Phase 3 of a DefaultCustomizer with a fixed template (rotation policy None):
\* template is <<>> when the customizer has none, else <<padding_distribution>>
\* of the resolved template.  padding_len is the length sampled during the
\* call, when one was.  The payload is never written.
on_struct_ready(template, level, payload) ==
  IF template = <<>>
  THEN {[result |-> Ok, payload |-> payload, padding_len |-> <<>>]}
  ELSE {[result |-> Ok, payload |-> payload, padding_len |-> <<out.value>>] :
          out \in generate_padding_len(level, template[1], <<>>)}

StructReadyCalls ==
  LET dists == {[pmf |-> <<[len |-> 1, prob |-> 50], [len |-> 2, prob |-> 50]>>,
                 min_length |-> 0, max_length |-> MaxPadding, power_of_2_bias |-> 50],
                [pmf |-> <<>>, min_length |-> 1, max_length |-> MaxPadding,
                 power_of_2_bias |-> 0]}
      payloads == {<<>>, <<[type |-> "server_name"]>>,
                   <<[type |-> "server_name"], [type |-> "Padding", length |-> 1]>>}
  IN {[fn |-> "on_struct_ready", template |-> t, randomization_level |-> level,
       payload |-> p] :
        t \in {<<>>} \cup {<<d>> : d \in dists},
        level \in {"None", "Light", "Medium", "High"}, p \in payloads}

StructReady ==
  /\ call.fn = "on_struct_ready" /\ ~ret.done
  /\ \E out \in on_struct_ready(call.template, call.randomization_level, call.payload) :
       ret' = Return(out)
  /\ UNCHANGED call

\* Timing jitter (utils.rs).  TimingJitterConfig::new gives <<>> for an error
\* and <<config>> otherwise; probabilities are percentages.
TimingJitterConfig_new(min_micros, max_micros, probability) ==
  IF min_micros > max_micros THEN <<>>
  ELSE IF ~(0 <= probability /\ probability <= 100) THEN <<>>
  ELSE <<[min_delay_micros |-> min_micros, max_delay_micros |-> max_micros,
          apply_probability |-> probability]>>

\* apply (std build): the durations it can sleep, <<>> when it does not sleep.
\* The bounds are cast from u64 to u16 before the draw.
apply(config) ==
  UNION {IF f < config.apply_probability
         THEN {<<delay>> : delay \in gen_range(config.min_delay_micros % 65536,
                                               config.max_delay_micros % 65536)}
         ELSE {<<>>} : f \in Fractions}

JitterCalls ==
  LET micros == {0, 1, 2, 65536, 65537, 65538}
  IN {[fn |-> "TimingJitterConfig", min_micros |-> lo, max_micros |-> hi, probability |-> pr] :
        lo \in micros, hi \in micros, pr \in {0, 50, 100, 150}}

\* TimingJitterConfig::new(..) and, when it is accepted, one apply().
JitterApply ==
  /\ call.fn = "TimingJitterConfig" /\ ~ret.done
  /\ LET config == TimingJitterConfig_new(call.min_micros, call.max_micros, call.probability)
     IN IF config = <<>> THEN ret' = Return([config |-> config, slept |-> <<>>])
        ELSE \E d \in apply(config[1]) : ret' = Return([config |-> config, slept |-> d])
  /\ UNCHANGED call

\* The extension codecs (extensions.rs).  Bytes are 0..255; a decoder gives
\* <<>> for an error and <<value>> otherwise.
u16_be(n) == <<(n % 65536) \div 256, n % 256>>

RECURSIVE Flatten(_)
Flatten(chunks) ==
  IF chunks = <<>> THEN <<>> ELSE Head(chunks) \o Flatten(Tail(chunks))

encode(x) ==
  LET \* every element of a list encoded as a big-endian u16, in order
      EachU16(list) ==
        [i \in 1..(2 * Len(list)) |->
           IF i % 2 = 1 THEN u16_be(list[(i + 1) \div 2])[1] ELSE u16_be(list[i \div 2])[2]]
  IN
  CASE x.kind = "ApplicationSettings" ->
         LET inner == Flatten([i \in DOMAIN x.protocols |->
                                 <<Len(x.protocols[i]) % 256>> \o x.protocols[i]])
         IN u16_be(Len(inner)) \o inner
    [] x.kind = "DelegatedCredential" ->
         u16_be(Len(x.signature_algorithms) * 2) \o EachU16(x.signature_algorithms)
    [] x.kind = "CompressCertificate" ->
         <<(Len(x.algorithms) * 2) % 256>> \o EachU16(x.algorithms)
    [] x.kind = "Padding" -> [i \in 1..x.length |-> 0]
    [] x.kind = "StatusRequest" ->
         LET responder_data ==
               Flatten([i \in DOMAIN x.responder_id_list |->
                          u16_be(Len(x.responder_id_list[i])) \o x.responder_id_list[i]])
         IN <<x.status_type>>
              \o u16_be(Len(responder_data)) \o responder_data
              \o u16_be(Len(x.request_extensions)) \o x.request_extensions
    [] x.kind = "SignedCertificateTimestamp" -> <<>>

\* The loop "while sub.any_left()" over items with a length prefix of `width`
\* bytes (width 0: two-byte values without a prefix).
RECURSIVE ReadItems(_, _)
ReadItems(sub, width) ==
  IF sub = <<>> THEN [ok |-> TRUE, items |-> <<>>]
  ELSE IF Len(sub) < (IF width = 0 THEN 2 ELSE width) THEN [ok |-> FALSE, items |-> <<>>]
  ELSE LET n == CASE width = 0 -> 2
                  [] width = 1 -> sub[1]
                  [] width = 2 -> sub[1] * 256 + sub[2]
       IN IF Len(sub) < width + n THEN [ok |-> FALSE, items |-> <<>>]
          ELSE LET item == IF width = 0 THEN sub[1] * 256 + sub[2]
                           ELSE SubSeq(sub, width + 1, width + n)
                   rest == ReadItems(SubSeq(sub, width + n + 1, Len(sub)), width)
               IN IF rest.ok THEN [ok |-> TRUE, items |-> <<item>> \o rest.items]
                  ELSE rest

read(kind, bytes) ==
  LET u16_at(i) == bytes[i] * 256 + bytes[i + 1]
      listed(prefix, width, field) ==
        \* a list of prefix-counted bytes at the start of the input
        IF Len(bytes) < prefix THEN <<>>
        ELSE LET len == IF prefix = 1 THEN bytes[1] ELSE u16_at(1)
             IN IF width = 0 /\ len % 2 # 0 THEN <<>>
                ELSE IF Len(bytes) < prefix + len THEN <<>>
                ELSE LET got == ReadItems(SubSeq(bytes, prefix + 1, prefix + len), width)
                     IN IF got.ok THEN <<(field :> got.items) @@ [kind |-> kind]>> ELSE <<>>
  IN CASE kind = "ApplicationSettings" -> listed(2, 1, "protocols")
       [] kind = "DelegatedCredential" -> listed(2, 0, "signature_algorithms")
       [] kind = "CompressCertificate" -> listed(1, 0, "algorithms")
       [] kind = "Padding" -> <<[kind |-> kind, length |-> Len(bytes) % 65536]>>
       [] kind = "StatusRequest" ->
            IF Len(bytes) < 3 THEN <<>>
            ELSE LET responder_list_len == u16_at(2)
                     after == 3 + responder_list_len
                 IN IF Len(bytes) < after THEN <<>>
                    ELSE LET got == ReadItems(SubSeq(bytes, 4, after), 2)
                         IN IF ~got.ok \/ Len(bytes) < after + 2 THEN <<>>
                            ELSE IF Len(bytes) < after + 2 + u16_at(after + 1) THEN <<>>
                            ELSE <<[kind |-> kind, status_type |-> bytes[1],
                                    responder_id_list |-> got.items,
                                    request_extensions |->
                                      SubSeq(bytes, after + 3, after + 2 + u16_at(after + 1))]>>
       [] kind = "SignedCertificateTimestamp" -> <<[kind |-> kind]>>

\* Extension values: short lists, and lists and items at the width of their
\* length prefix (a 256-byte protocol, 128 algorithms).
CodecCalls ==
  LET Filled(n) == [i \in 1..n |-> 255]
      values ==
        {[kind |-> "ApplicationSettings", protocols |-> ps] :
           ps \in SeqsUpTo({<<>>, <<104, 50>>, Filled(256)}, MaxItems)}
        \cup {[kind |-> "DelegatedCredential", signature_algorithms |-> a] :
                a \in SeqsUpTo({1027, 2052}, MaxItems)}
        \cup {[kind |-> "CompressCertificate", algorithms |-> a] :
                a \in SeqsUpTo({1, 2}, MaxItems) \cup {[i \in 1..128 |-> 2]}}
        \cup {[kind |-> "Padding", length |-> n] : n \in {0, 1, 100}}
        \cup {[kind |-> "StatusRequest", status_type |-> t, responder_id_list |-> ids,
               request_extensions |-> e] :
                t \in {1, 2}, ids \in SeqsUpTo({<<>>, <<7>>}, MaxItems), e \in {<<>>, <<9>>}}
        \cup {[kind |-> "SignedCertificateTimestamp"]}
  IN {[fn |-> "round_trip", x |-> x] : x \in values}

\* encode into an empty buffer, then read from a Reader over those bytes.
RoundTrip ==
  /\ call.fn = "round_trip" /\ ~ret.done
  /\ LET bytes == encode(call.x)
     IN ret' = Return([bytes |-> bytes, decoded |-> read(call.x.kind, bytes)])
  /\ UNCHANGED call

\* Extension-order validation (utils.rs).  Extension types are named values.
\* A validator that would only look at pre_shared_key.
validate_extension_order_psk_only(extensions) ==
  IF extensions = <<>> THEN [tag |-> "Ok"]
  ELSE IF (\E i \in DOMAIN extensions : extensions[i] = "PreSharedKey")
          /\ extensions[Len(extensions)] # "PreSharedKey"
  THEN [tag |-> "ValidationError", message |-> "pre_shared_key extension must be last"]
  ELSE [tag |-> "Ok"]

validate_extension_order(extensions) ==
  IF extensions = <<>> THEN [tag |-> "Ok"]
  ELSE LET last == extensions[Len(extensions)]
           has_psk == \E i \in DOMAIN extensions : extensions[i] = "PreSharedKey"
           \* the pairs i < j the nested loops find equal, positions from 0
           duplicates == {p \in (DOMAIN extensions) \X (DOMAIN extensions) :
                            p[1] < p[2] /\ extensions[p[1]] = extensions[p[2]]}
           first == CHOOSE p \in duplicates :
                      \A q \in duplicates :
                        p[1] < q[1] \/ (p[1] = q[1] /\ p[2] <= q[2])
       IN IF has_psk /\ last # "PreSharedKey"
          THEN [tag |-> "ValidationError",
                message |-> "pre_shared_key extension must be last"]
          ELSE IF duplicates # {}
          THEN [tag |-> "ValidationError", message |-> "duplicate extension at positions",
                positions |-> <<first[1] - 1, first[2] - 1>>]
          ELSE [tag |-> "Ok"]

ValidateOrderCalls ==
  {[fn |-> "validate_extension_order", extensions |-> l] :
     l \in SeqsUpTo({"ServerName", "SupportedVersions", "PreSharedKey"}, MaxExtensions)}

ValidateExtensionOrder ==
  /\ call.fn = "validate_extension_order" /\ ~ret.done
  /\ ret' = Return(validate_extension_order(call.extensions))
  /\ UNCHANGED call

\* Error conversion with the message (mod.rs).  A CustlsError is
\* [kind, msg]; the host error is [variant, text].
\* A conversion that would keep the kind and drop the message.
From_kind_only(e) ==
  [variant |-> "General", text |-> "custls error: " \o e.kind]

\* impl Display for CustlsError
fmt(e) ==
  CASE e.kind = "HookError" -> "Hook error: " \o e.msg
    [] e.kind = "RandomizationError" -> "Randomization error: " \o e.msg
    [] e.kind = "ExtensionError" -> "Extension error: " \o e.msg
    [] e.kind = "TemplateError" -> "Template error: " \o e.msg
    [] e.kind = "CacheError" -> "Cache error: " \o e.msg
    [] e.kind = "ValidationError" -> "Validation error: " \o e.msg

\* impl From<CustlsError> for RustlsError
From(e) == [variant |-> "General", text |-> "custls error: " \o fmt(e)]

\* Pairs of errors; the messages include ones that look like a tag.
ConvertCalls ==
  LET errors == {[kind |-> k, msg |-> m] :
                   k \in {"HookError", "RandomizationError", "ExtensionError",
                          "TemplateError", "CacheError", "ValidationError"},
                   m \in {"", "a", "error: a", "Hook error: a"}}
  IN {[fn |-> "from", errors |-> <<e1, e2>>] : e1 \in errors, e2 \in errors}

Convert ==
  /\ call.fn = "from" /\ ~ret.done
  /\ ret' = Return(<<From(call.errors[1]), From(call.errors[2])>>)
  /\ UNCHANGED call

\* The naturalness filter (templates.rs).  A filter is [blacklist, whitelist,
\* dependencies]: two lists of extension lists and a map from an extension to
\* the list of extensions it requires.
\* A filter that would look at the blacklist only.
is_natural_blacklist_only(filter, extensions) ==
  ~\E b \in DOMAIN filter.blacklist :
      \A k \in DOMAIN filter.blacklist[b] :
        \E i \in DOMAIN extensions : extensions[i] = filter.blacklist[b][k]

is_natural(filter, extensions) ==
  LET contains(ext) == \E i \in DOMAIN extensions : extensions[i] = ext
      is_subset_of(set) == \A k \in DOMAIN set : contains(set[k])
      has_any(set) == \E k \in DOMAIN set : contains(set[k])
  IN IF \E b \in DOMAIN filter.blacklist : is_subset_of(filter.blacklist[b])
     THEN FALSE
     ELSE IF \E w \in DOMAIN filter.whitelist :
               has_any(filter.whitelist[w]) /\ ~is_subset_of(filter.whitelist[w])
     THEN FALSE
     ELSE IF \E ext \in DOMAIN filter.dependencies :
               contains(ext) /\ \E d \in DOMAIN filter.dependencies[ext] :
                                  ~contains(filter.dependencies[ext][d])
     THEN FALSE
     ELSE TRUE

\* Filters with and without each kind of rule, an extension list, and the
\* same extensions in another order.
NaturalCalls ==
  LET types == {"ServerName", "KeyShare", "SupportedVersions"}
      filters ==
        {[blacklist |-> b, whitelist |-> w, dependencies |-> d] :
           b \in {<<>>, << <<"ServerName", "KeyShare">> >>, << <<>> >>},
           w \in {<<>>, << <<"KeyShare", "SupportedVersions">> >>},
           d \in {<<>>, "KeyShare" :> <<"SupportedVersions">>,
                  ("KeyShare" :> <<"SupportedVersions">>) @@ ("ServerName" :> <<>>)}}
      lists == SeqsUpTo(types, MaxExtensions)
  IN UNION {{[fn |-> "is_natural", filter |-> f, extensions |-> l, reordered |-> r] :
               f \in filters, r \in {x \in lists : Range(x) = Range(l)}} : l \in lists}

IsNatural ==
  /\ call.fn = "is_natural" /\ ~ret.done
  /\ ret' = Return(<<is_natural(call.filter, call.extensions),
                     is_natural(call.filter, call.reordered)>>)
  /\ UNCHANGED call

\* The extension_order of the built-in templates (templates.rs).
extension_order(template) ==
  CASE template = "Chrome130" ->
         <<"ServerName", "ExtendedMasterSecret", "RenegotiationInfo", "SupportedVersions",
           "EllipticCurves", "ECPointFormats", "SessionTicket", "ALProtocolNegotiation",
           "StatusRequest", "SignatureAlgorithms", "SCT", "KeyShare",
           "PSKKeyExchangeModes", "CompressCertificate", "Padding">>
    [] template = "Firefox135" ->
         <<"ServerName", "ExtendedMasterSecret", "RenegotiationInfo", "SupportedVersions",
           "EllipticCurves", "SessionTicket", "ALProtocolNegotiation", "StatusRequest",
           "KeyShare", "SupportedVersions", "SignatureAlgorithms",
           "PSKKeyExchangeModes", "ECPointFormats", "Padding">>
    [] template = "Safari17" ->
         <<"ServerName", "ExtendedMasterSecret", "RenegotiationInfo", "SupportedVersions",
           "EllipticCurves", "ECPointFormats", "ALProtocolNegotiation", "StatusRequest",
           "SCT", "SignatureAlgorithms", "KeyShare", "PSKKeyExchangeModes",
           "SessionTicket">>
    [] template = "Edge130" ->
         <<"ServerName", "ExtendedMasterSecret", "RenegotiationInfo", "SupportedVersions",
           "EllipticCurves", "ECPointFormats", "SessionTicket", "ALProtocolNegotiation",
           "StatusRequest", "SignatureAlgorithms", "SCT", "KeyShare",
           "PSKKeyExchangeModes", "CompressCertificate", "Padding">>

TemplateCalls ==
  {[fn |-> "validate_template", template |-> t] :
     t \in {"Chrome130", "Firefox135", "Safari17", "Edge130"}}

\* validate_extension_order on the extension_order of a built-in template.
ValidateTemplate ==
  /\ call.fn = "validate_template" /\ ~ret.done
  /\ ret' = Return(validate_extension_order(extension_order(call.template)))
  /\ UNCHANGED call

(***************************************************************************)
(* select_rotated_template at counter values of the full machine word      *)
(***************************************************************************)
\* A usize of a 64-bit target: its eight bytes, least significant first.
\* 2654435761 = 0x9E3779B1.
Multiplier == <<177, 121, 55, 158>>

\* The mathematical product counter * 2654435761, twelve bytes, by long
\* multiplication.
Product(counter) ==
  LET ByteAt(i) == IF i \in DOMAIN counter THEN counter[i] ELSE 0
      Column(k) ==
        ByteAt(k) * Multiplier[1] + ByteAt(k - 1) * Multiplier[2]
          + ByteAt(k - 2) * Multiplier[3] + ByteAt(k - 3) * Multiplier[4]
      RECURSIVE CarryInto(_)
      CarryInto(k) ==
        IF k = 1 THEN 0 ELSE (Column(k - 1) + CarryInto(k - 1)) \div 256
  IN [k \in 1..(Len(counter) + Len(Multiplier)) |->
        (Column(k) + CarryInto(k)) % 256]

\* The product does not fit the machine word.
Overflows(counter) ==
  \E k \in (Len(counter) + 1)..(Len(counter) + Len(Multiplier)) :
    Product(counter)[k] # 0

\* What a build without overflow checks computes: the low eight bytes.
Wrapped(counter) == SubSeq(Product(counter), 1, Len(counter))

\* x % n for a small n.
Rem(x, n) ==
  LET RECURSIVE RemFrom(_)
      RemFrom(i) ==
        IF i = 0 THEN 0 ELSE (RemFrom(i - 1) * 256 + x[Len(x) - i + 1]) % n
  IN RemFrom(Len(x))

\* wrapping_add(1) applied d times, d < 256.
CounterAfter(counter, d) ==
  LET carry == (counter[1] + d) \div 256
  IN [i \in 1..Len(counter) |->
        IF i = 1 THEN (counter[1] + d) % 256
        ELSE IF carry = 1 /\ \A j \in 2..(i - 1) : counter[j] = 255
             THEN (counter[i] + 1) % 256
             ELSE counter[i]]

Panic == [tag |-> "panic", message |-> "attempt to multiply with overflow"]

\* What select_rotated_template returns for the counter value it has read:
\* a build with overflow checks panics on an overflowing product, a build
\* without them goes on with the wrapped product.
select_rotated_template(cfg, counter) ==
  LET n == Len(RotationTemplates(cfg))
      multiplies == cfg.rotation_policy \in {"Random", "WeightedRandom"}
      some == [tag |-> "Some", overflow |-> multiplies /\ Overflows(counter),
               template |-> SelectByIndex(cfg, Rem(counter, n),
                                          Rem(Wrapped(counter), n),
                                          Rem(Wrapped(counter), WeightRange))]
  IN IF multiplies /\ Overflows(counter)
     THEN {Panic, some} ELSE {some}

\* WeightRange consecutive selections of one customizer, the first reading
\* `start`: how many of them returned each template.
select_window(cfg, start) ==
  LET outcomes == [d \in 0..(WeightRange - 1) |->
                     select_rotated_template(cfg, CounterAfter(start, d))]
      wrappedOf(d) == CHOOSE o \in outcomes[d] : o.tag = "Some"
      count(x) == Cardinality({d \in 0..(WeightRange - 1) : wrappedOf(d).template = x})
      counts == [tag |-> "Counts",
                 Chrome130 |-> count("Chrome130"), Firefox135 |-> count("Firefox135"),
                 Safari17 |-> count("Safari17"), Edge130 |-> count("Edge130")]
  IN IF \E d \in 0..(WeightRange - 1) : Panic \in outcomes[d]
     THEN {Panic, counts} ELSE {counts}

\* Every policy that bumps the counter, over the default list and two
\* configured lists.
WideConfigs ==
  {[rotation_policy |-> rp, rotation_templates |-> rl, template |-> None] :
     rp \in {"RoundRobin", "Random", "WeightedRandom"},
     rl \in {<<>>, <<"Chrome130", "Firefox135">>, <<"Safari17">>}}

\* Counters 0, 1, 2, 3, 99, 1000, the last counter whose product fits
\* (6949403087), the first whose product does not, and usize::MAX.
SelectWideCalls ==
  {[fn |-> "select_rotated_template", cfg |-> c, counter |-> n] :
     c \in WideConfigs,
     n \in { <<0, 0, 0, 0, 0, 0, 0, 0>>, <<1, 0, 0, 0, 0, 0, 0, 0>>,
             <<2, 0, 0, 0, 0, 0, 0, 0>>, <<3, 0, 0, 0, 0, 0, 0, 0>>,
             <<99, 0, 0, 0, 0, 0, 0, 0>>, <<232, 3, 0, 0, 0, 0, 0, 0>>,
             <<207, 121, 55, 158, 1, 0, 0, 0>>, <<208, 121, 55, 158, 1, 0, 0, 0>>,
             <<255, 255, 255, 255, 255, 255, 255, 255>> }}

\* Windows that start at 0, 1, 2, 3, 99, 1000, that end at the last counter
\* whose product fits (6949402988..6949403087), that reach one counter past
\* it, and that run over the wrap of the counter to 0.
SelectWindowCalls ==
  {[fn |-> "select_window", cfg |-> c, start |-> n] :
     c \in {w \in WideConfigs : w.rotation_policy = "WeightedRandom"},
     n \in { <<0, 0, 0, 0, 0, 0, 0, 0>>, <<1, 0, 0, 0, 0, 0, 0, 0>>,
             <<2, 0, 0, 0, 0, 0, 0, 0>>, <<3, 0, 0, 0, 0, 0, 0, 0>>,
             <<99, 0, 0, 0, 0, 0, 0, 0>>, <<232, 3, 0, 0, 0, 0, 0, 0>>,
             <<108, 121, 55, 158, 1, 0, 0, 0>>, <<109, 121, 55, 158, 1, 0, 0, 0>>,
             <<206, 255, 255, 255, 255, 255, 255, 255>> }}

SelectRotatedTemplate ==
  /\ call.fn = "select_rotated_template" /\ ~ret.done
  /\ \E o \in select_rotated_template(call.cfg, call.counter) : ret' = Return(o)
  /\ UNCHANGED call

SelectWindow ==
  /\ call.fn = "select_window" /\ ~ret.done
  /\ \E o \in select_window(call.cfg, call.start) : ret' = Return(o)
  /\ UNCHANGED call

PureCalls ==
  SelectCalls \cup PaddingCalls \cup ShuffleCalls \cup StructReadyCalls \cup JitterCalls
    \cup CodecCalls
    \cup ValidateOrderCalls
    \cup ConvertCalls
    \cup NaturalCalls
    \cup TemplateCalls
    \cup SelectWideCalls
    \cup SelectWindowCalls

PureInit == call \in PureCalls /\ ret = NoReturn

\* The caller's loop over connections to one target.
GreaseInit ==
  /\ customizer \in GreaseSetups
  /\ connection_counter = 0 /\ holder = [m \in Mutexes |-> NoThread]
  /\ thread = <<>> /\ conn = <<>> /\ issued = 0
  /\ selections = <<>> /\ finished = <<>>
  /\ max_size = 1 /\ cache = <<>> /\ now = 0 /\ lastEvict = NoEvict
  /\ calls = <<>> /\ seen = {} /\ lowRun = NoRun
  /\ greaseLog = <<>> /\ paddingLog = <<>> /\ held = <<>> /\ injected = <<>>
  /\ connections = 0

\* The handshake to the target was recorded: the target has an entry.
GreaseRecord ==
  /\ \E success \in BOOLEAN :
       RecordResultOf(HistoryTarget, CallConfig, success, 0)
  /\ UNCHANGED callerVars

\* One connection of the loop: read the target's recent GREASE values,
\* inject avoiding them, track every value that was used.
GreaseConnect ==
  /\ connections < MaxConnections
  /\ \E used \in inject_grease(customizer.randomization_level,
                                customizer.grease_values,
                                get_previous_grease_values(cache, HistoryTarget)) :
       /\ cache' = TrackAll(cache, HistoryTarget, used)
       /\ injected' = Append(injected, used)
       /\ greaseLog' = greaseLog \o used
  /\ connections' = connections + 1
  /\ lastEvict' = NoEvict /\ lowRun' = NoRun
  /\ UNCHANGED <<max_size, now, calls, seen, paddingLog, held>>

PureIdle == call = [fn |-> None] /\ ret = NoReturn

CallerIdle ==
  /\ greaseLog = <<>> /\ paddingLog = <<>> /\ held = <<>> /\ injected = <<>>
  /\ connections = 0

HooksNext ==
  \E t \in Threads :
    \/ OnConfigResolve(t)
    \/ OnComponentsReady(t)
    \/ OnStructReady(t)
    \/ TransformWireBytes(t)
    \/ ErrorReturningPhase(t)
    \/ LockCounter(t)
    \/ ReadCounter(t)
    \/ BumpCounter(t)
    \/ LockRandomizer(t)
    \/ Randomize(t)
    \/ BeginCall(t)
    \/ LockManaged(t)
    \/ CallRecordHandshakeResult(t)
    \/ CallClearCache(t)
    \/ CallInvalidateTarget(t)
    \/ CallRecordSession(t)
    \/ CallGetSessionConfig(t)
    \/ CallMarkSessionEstablished(t)
    \/ CallRecordSessionTicket(t)
    \/ CallRecordSessionResumption(t)

(***************************************************************************)
(* Specifications: each component runs on its own, the others idle.        *)
(***************************************************************************)
CacheIdle ==
  /\ max_size = 0 /\ cache = <<>> /\ now = 0 /\ lastEvict = NoEvict
  /\ calls = <<>> /\ seen = {} /\ lowRun = NoRun

TrackerIdle ==
  /\ max_sessions = 0 /\ sessions = <<>> /\ order = <<>> /\ baseline = <<>>
  /\ resumptions = <<>>
  /\ lastSessEvict = NoSessEvict

DowngradeIdle ==
  /\ server_random = <<>> /\ expected_version = "TLSv1_3"
  /\ negotiated_version = "TLSv1_3" /\ result = Pending

CacheNext ==
  \/ RecordResult /\ UNCHANGED <<trackerVars, downgradeVars, pureVars, hookVars, callerVars>>
  \/ GetWorkingFingerprint /\ UNCHANGED <<trackerVars, downgradeVars, pureVars, hookVars, callerVars>>
  \/ InvalidateTarget /\ UNCHANGED <<trackerVars, downgradeVars, pureVars, hookVars, callerVars>>
  \/ ClearCache /\ UNCHANGED <<trackerVars, downgradeVars, pureVars, hookVars, callerVars>>
  \/ TrackGreaseValue /\ UNCHANGED <<trackerVars, downgradeVars, pureVars, hookVars, callerVars>>
  \/ TrackPaddingLength /\ UNCHANGED <<trackerVars, downgradeVars, pureVars, hookVars, callerVars>>

TrackerNext ==
  \/ RecordSession /\ UNCHANGED <<cacheVars, downgradeVars, pureVars, hookVars, callerVars>>
  \/ MarkEstablished /\ UNCHANGED <<cacheVars, downgradeVars, pureVars, hookVars, callerVars>>
  \/ RecordTicket /\ UNCHANGED <<cacheVars, downgradeVars, pureVars, hookVars, callerVars>>
  \/ RecordResumption /\ UNCHANGED <<cacheVars, downgradeVars, pureVars, hookVars, callerVars>>
  \/ RemoveSession /\ UNCHANGED <<cacheVars, downgradeVars, pureVars, hookVars, callerVars>>
  \/ ClearSessions /\ UNCHANGED <<cacheVars, downgradeVars, pureVars, hookVars, callerVars>>

HistoryNext ==
  \/ HistoryRecord /\ UNCHANGED <<trackerVars, downgradeVars, pureVars, hookVars>>
  \/ HistoryTrackGrease /\ UNCHANGED <<trackerVars, downgradeVars, pureVars, hookVars>>
  \/ HistoryTrackPadding /\ UNCHANGED <<trackerVars, downgradeVars, pureVars, hookVars>>

CopiesNext ==
  \/ CopiesRecord /\ UNCHANGED <<trackerVars, downgradeVars, pureVars, hookVars>>
  \/ CopiesRetrieve /\ UNCHANGED <<trackerVars, downgradeVars, pureVars, hookVars>>
  \/ CopiesModify /\ UNCHANGED <<trackerVars, downgradeVars, pureVars, hookVars>>
  \/ CopiesInvalidate /\ UNCHANGED <<trackerVars, downgradeVars, pureVars, hookVars>>

GreaseNext ==
  \/ GreaseRecord /\ UNCHANGED <<trackerVars, downgradeVars, pureVars, hookVars>>
  \/ GreaseConnect /\ UNCHANGED <<trackerVars, downgradeVars, pureVars, hookVars>>

PureNext ==
  \/ SelectUnusedGrease
       /\ UNCHANGED <<cacheVars, trackerVars, downgradeVars, hookVars, callerVars>>
  \/ GeneratePaddingLen
       /\ UNCHANGED <<cacheVars, trackerVars, downgradeVars, hookVars, callerVars>>
  \/ ShuffleExtensions
       /\ UNCHANGED <<cacheVars, trackerVars, downgradeVars, hookVars, callerVars>>
  \/ StructReady
       /\ UNCHANGED <<cacheVars, trackerVars, downgradeVars, hookVars, callerVars>>
  \/ JitterApply
       /\ UNCHANGED <<cacheVars, trackerVars, downgradeVars, hookVars, callerVars>>
  \/ RoundTrip
       /\ UNCHANGED <<cacheVars, trackerVars, downgradeVars, hookVars, callerVars>>
  \/ ValidateExtensionOrder
       /\ UNCHANGED <<cacheVars, trackerVars, downgradeVars, hookVars, callerVars>>
  \/ Convert
       /\ UNCHANGED <<cacheVars, trackerVars, downgradeVars, hookVars, callerVars>>
  \/ IsNatural
       /\ UNCHANGED <<cacheVars, trackerVars, downgradeVars, hookVars, callerVars>>
  \/ ValidateTemplate
       /\ UNCHANGED <<cacheVars, trackerVars, downgradeVars, hookVars, callerVars>>
  \/ SelectRotatedTemplate
       /\ UNCHANGED <<cacheVars, trackerVars, downgradeVars, hookVars, callerVars>>
  \/ SelectWindow
       /\ UNCHANGED <<cacheVars, trackerVars, downgradeVars, hookVars, callerVars>>

DowngradeNext ==
  Validate /\ UNCHANGED <<cacheVars, trackerVars, hookVars, callerVars, pureVars>>

InitCache == CacheInit /\ TrackerIdle /\ DowngradeIdle /\ HooksIdle /\ CallerIdle /\ PureIdle
InitTracker == TrackerInit /\ CacheIdle /\ DowngradeIdle /\ HooksIdle /\ CallerIdle /\ PureIdle
InitDowngrade == DowngradeInit /\ CacheIdle /\ TrackerIdle /\ HooksIdle /\ CallerIdle /\ PureIdle
InitHooks == HooksInit /\ DowngradeIdle /\ CallerIdle /\ PureIdle
InitRotation == HooksStart(RoundRobinConfigs) /\ DowngradeIdle /\ CallerIdle /\ PureIdle
InitHistory == CallerCacheInit({1}) /\ TrackerIdle /\ DowngradeIdle /\ HooksIdle /\ PureIdle
InitCopies == CallerCacheInit(1..MaxMaxSize) /\ TrackerIdle /\ DowngradeIdle /\ HooksIdle /\ PureIdle
InitGrease == GreaseInit /\ TrackerIdle /\ DowngradeIdle /\ PureIdle
InitPure ==
  PureInit /\ CacheIdle /\ TrackerIdle /\ DowngradeIdle /\ HooksIdle /\ CallerIdle
InitManaged == HooksStart(ManagedConfigs) /\ DowngradeIdle /\ CallerIdle /\ PureIdle

SpecCache == InitCache /\ [][CacheNext]_vars
SpecTracker == InitTracker /\ [][TrackerNext]_vars
SpecDowngrade == InitDowngrade /\ [][DowngradeNext]_vars
SpecHooks == InitHooks /\ [][HooksNext]_vars
SpecRotation == InitRotation /\ [][RotationNext]_vars
SpecManaged == InitManaged /\ [][ManagedNext]_vars
SpecHistory == InitHistory /\ [][HistoryNext]_vars
SpecCopies == InitCopies /\ [][CopiesNext]_vars
SpecGrease == InitGrease /\ [][GreaseNext]_vars
SpecPure == InitPure /\ [][PureNext]_vars

(***************************************************************************)
(* Claims about the fingerprint cache                                      *)
(***************************************************************************)

\* C1: after every step of any sequence of cache operations the number of
\* cached entries is at most max_size, for every max_size.
C1_SizeWithinMax == Cardinality(DOMAIN cache) <= max_size

\* C2: when record_result evicts, it removes exactly one entry, that entry
\* has the lowest reputation of all entries present, and among the entries
\* tied on that reputation none has an older last_used; so no entry is
\* evicted while one with strictly lower reputation is cached.
C2_EvictsLowestOldest ==
  lastEvict.victim # NoKey =>
    LET b == lastEvict.before
        v == b[lastEvict.victim]
    IN /\ DOMAIN b \ DOMAIN cache = {lastEvict.victim}
       /\ \A k \in DOMAIN b :
            /\ ~RepLess(b[k].reputation_score, v.reputation_score)
            /\ RepEq(b[k].reputation_score, v.reputation_score)
                 => v.last_used <= b[k].last_used

\* An eviction that had to break a tie on the lowest reputation by age.
C2_Witness ==
  /\ lastEvict.victim # NoKey
  /\ \E k \in DOMAIN lastEvict.before :
       LET b == lastEvict.before
           v == b[lastEvict.victim]
       IN /\ k # lastEvict.victim
          /\ RepEq(b[k].reputation_score, v.reputation_score)
          /\ v.last_used < b[k].last_used

\* C9: for every cached target, get_stats returns the numbers of
\* record_result calls made for it with success = true and success = false
\* since its entry was created, and a reputation equal to
\* successes / (successes + failures).
C9_StatsMatchCalls ==
  /\ DOMAIN calls = DOMAIN cache
  /\ \A t \in DOMAIN cache :
       LET st == get_stats(cache, t)
       IN /\ st[1] = calls[t].s
          /\ st[2] = calls[t].f
          /\ calls[t].s + calls[t].f > 0
          /\ RepEq(st[3], [num |-> calls[t].s, den |-> calls[t].s + calls[t].f])

\* An entry that has recorded both a success and a failure.
C9_Witness ==
  \E t \in DOMAIN cache : calls[t].s >= 1 /\ calls[t].f >= 1

\* C10 as stated: the entries whose results were all successes when a run
\* of failing records of unseen targets began are still cached after every
\* call of the run, whatever max_size is.
C10_HighReputationSurvives == lowRun.held \subseteq DOMAIN cache

\* C10 as amended: the same, provided that when the run began the cache held
\* fewer than max_size entries or held an entry of reputation below 1.
C10_HighReputationSurvivesWithRoom ==
  lowRun.fit => lowRun.held \subseteq DOMAIN cache

\* A run of two failing records, the second one evicting, with an
\* all-success entry under observation.
C10_Witness ==
  /\ lowRun.fit
  /\ lowRun.n >= 2
  /\ lowRun.held # {}
  /\ lastEvict.victim # NoKey


(***************************************************************************)
(* Claims about the session tracker                                        *)
(***************************************************************************)

\* C3: when record_session of an untracked id finds the tracker full, the
\* session it removes is the one recorded earliest among those tracked.
C3_EvictsEarliestRecorded ==
  lastSessEvict.victim # NoSession => lastSessEvict.victim = lastSessEvict.oldest

\* C4: for an id that stays in the tracker, get_session_config returns the
\* config passed when the session was first recorded, whatever tracker
\* operations were performed in between.
C4_ConfigIsBaseline ==
  \A id \in DOMAIN sessions : get_session_config(sessions, id) = baseline[id]

\* C11: for every max_sessions the tracker holds at most max_sessions
\* sessions after every step of any sequence of its operations.
C11_SessionsWithinMax == Cardinality(DOMAIN sessions) <= max_sessions

\* C12: for an id that stays in the tracker, the resume_count reported by
\* get_session_stats equals the number of record_resumption calls made for
\* it since it was first recorded (and so never decreases).
C12_ResumeCountMatchesCalls ==
  \A id \in DOMAIN sessions :
    get_session_stats(sessions, id)[2] = resumptions[id]

(***************************************************************************)
(* Claims about the downgrade validator                                    *)
(***************************************************************************)
IsErr(r) == r \notin {Ok, Pending}

\* C8: for a 32-byte server_random and expected_version = TLS 1.3 the
\* validator fails exactly when (negotiated is TLS 1.2 and the last 8 bytes
\* are 44 4F 57 4E 47 52 44 01) or (negotiated is TLS 1.1 or 1.0 and the
\* last 8 bytes are 44 4F 57 4E 47 52 44 00); otherwise it returns ok.
C8_DowngradeExactly ==
  (result # Pending /\ expected_version = "TLSv1_3" /\ Len(server_random) = 32) =>
    LET b == [i \in 1..8 |-> server_random[24 + i]]
        downgrd == b[1] = 68 /\ b[2] = 79 /\ b[3] = 87 /\ b[4] = 78
                   /\ b[5] = 71 /\ b[6] = 82 /\ b[7] = 68
        flagged == \/ negotiated_version = "TLSv1_2" /\ downgrd /\ b[8] = 1
                   \/ negotiated_version \in {"TLSv1_1", "TLSv1_0"}
                      /\ downgrd /\ b[8] = 0
    IN /\ flagged => IsErr(result)
       /\ ~flagged => result = Ok

\* A TLS 1.1 downgrade that was detected.
C8_Witness ==
  /\ IsErr(result)
  /\ expected_version = "TLSv1_3"
  /\ negotiated_version = "TLSv1_1"
  /\ Len(server_random) = 32
  /\ SubSeq(server_random, 25, 32) = TLS11_DOWNGRADE_CANARY

(***************************************************************************)
(* Claims about the orchestrator                                           *)
(***************************************************************************)

\* C5: under a rotation policy other than None, the template phase 1 selects
\* for a connection is the template phases 2 and 3 of that connection use,
\* whatever other connections do in between.
C5_TemplateCarried ==
  \A t \in DOMAIN conn :
    customizer.rotation_policy # "None" =>
      \A phase \in DOMAIN conn[t].used :
        /\ 1 \in DOMAIN conn[t].selected
        /\ conn[t].used[phase] = conn[t].selected[1]

\* C6: when a hook phase returns an error for a connection, the handshake of
\* that connection is aborted with that error and no later phase is invoked
\* for it.
C6_ErrorAborts ==
  \A t \in DOMAIN conn :
    \A i \in 1..Len(conn[t].results) :
      conn[t].results[i] # Ok =>
        /\ conn[t].status = "aborted"
        /\ conn[t].error = conn[t].results[i]
        /\ conn[t].invoked = [p \in 1..i |-> p]

\* A connection whose second phase failed after a successful first phase,
\* next to a connection that has already failed too.
C6_Witness ==
  \E t \in DOMAIN conn, u \in DOMAIN conn :
    /\ t # u
    /\ conn[t].status = "aborted"
    /\ conn[t].results = <<Ok, Into("HookError")>>
    /\ conn[u].status = "aborted"

\* C7: in every interleaving of hook phases and management calls no thread
\* locks (or waits for) one of the four orchestrator mutexes while it holds
\* another, and a thread that waits always waits for a thread that is not
\* itself waiting: no deadlocked state is reachable.
C7_OneMutexAtATime ==
  \A t \in DOMAIN thread :
    /\ Cardinality(Held(t)) <= 1
    /\ WaitsFor(t) # None =>
         /\ Held(t) = {}
         /\ holder[WaitsFor(t)] # NoThread =>
              WaitsFor(holder[WaitsFor(t)]) = None

\* A thread blocked on the randomizer while the other thread, which came
\* through the counter's critical section, holds it.
C7_Witness ==
  \E t \in DOMAIN thread, u \in DOMAIN thread :
    /\ WaitsFor(t) = "randomizer"
    /\ holder["randomizer"] = u
    /\ customizer.rotation_policy # "None"
    /\ connection_counter >= 4

(***************************************************************************)
(* Claims about template rotation                                          *)
(***************************************************************************)
\* C13: under RoundRobin the k-th selection an orchestrator makes (k = 0, 1,
\* ...) returns L[k mod |L|], L being the configured list or the four
\* built-ins when it is empty; with L = [Chrome, Firefox] four phase 1
\* invocations select Chrome, Firefox, Chrome, Firefox.
C13_RoundRobinOrder ==
  customizer.kind = "DefaultCustomizer" /\ customizer.rotation_policy = "RoundRobin" =>
    LET L == RotationTemplates(customizer)
    IN \A k \in 0..(Len(selections) - 1) :
         selections[k + 1].template = L[(k % Len(L)) + 1]

C13_Witness ==
  /\ customizer.rotation_policy = "RoundRobin"
  /\ customizer.rotation_templates = <<"Chrome130", "Firefox135">>
  /\ selections = [k \in 1..4 |->
                     [phase |-> 1,
                      counter |-> k - 1,
                      template |-> IF k % 2 = 1 THEN "Chrome130" ELSE "Firefox135"]]

\* The connections opened so far that ran all four phases, oldest first,
\* provided none in between was dropped early.
AllConnections == finished \o <<conn[1]>>

RanAllPhases(c) == c.status = "sent" /\ c.invoked = <<1, 2, 3, 4>>

\* The number of connections of the window from..to that template tp was
\* applied to when the ClientHello structure was built (phase 3).
AppliedCount(tp, from, to) ==
  Cardinality({i \in from..to : AllConnections[i].used[3] = tp})

\* C14: under RoundRobin with a list of distinct templates, over any n*|list|
\* consecutive connections that each ran phases 1 to 4 once, every template
\* of the list is the template applied to exactly n of them.
C14_UniformOverConnections ==
  customizer.kind = "DefaultCustomizer" /\ customizer.rotation_policy = "RoundRobin" =>
    LET L == RotationTemplates(customizer)
        total == Len(AllConnections)
    IN \A from \in 1..total : \A n \in 1..total :
         LET to == from + n * Len(L) - 1
         IN (to <= total /\ \A i \in from..to : RanAllPhases(AllConnections[i]))
              => \A k \in 1..Len(L) : AppliedCount(L[k], from, to) = n

(***************************************************************************)
(* Claims about the order of the hook phases                               *)
(***************************************************************************)
HookOrder == <<1, 2, 3, 4>>

InOrderOnce(c) ==
  Len(c.invoked) <= 4 /\ c.invoked = SubSeq(HookOrder, 1, Len(c.invoked))

C16_BoundedUnderConcurrency ==
  customizer.kind = "DefaultCustomizer" /\ customizer.enable_cache =>
    /\ Cardinality(DOMAIN cache) <= customizer.max_cache_size
    /\ Cardinality(DOMAIN sessions) <= customizer.max_cache_size

(***************************************************************************)
(* Claims about the anti-repetition queues                                 *)
(***************************************************************************)
\* The last k values of s, in order.
LastOf(s, k) ==
  IF Len(s) <= k THEN s ELSE SubSeq(s, Len(s) - k + 1, Len(s))

\* C17: for a cached target, after n track_grease_value (track_padding_length)
\* calls the recent-GREASE (recent-padding) history is exactly the last
\* min(n, 10) tracked values in tracking order: never more than 10, the
\* oldest dropped on overflow.
C17_HistoryIsLastTen ==
  HistoryTarget \in DOMAIN cache =>
    /\ cache[HistoryTarget].previous_grease_values = LastOf(greaseLog, 10)
    /\ cache[HistoryTarget].previous_padding_lengths = LastOf(paddingLog, 10)
    /\ Len(cache[HistoryTarget].previous_grease_values) <= 10
    /\ Len(cache[HistoryTarget].previous_padding_lengths) <= 10

C17_Witness ==
  /\ HistoryTarget \in DOMAIN cache
  /\ Len(greaseLog) = 11
  /\ greaseLog[1] # greaseLog[2] /\ greaseLog[2] # greaseLog[11]
  /\ cache[HistoryTarget].previous_grease_values = SubSeq(greaseLog, 2, 11)

Total(e) == e.success_count + e.failure_count

\* The step is a record_result for target t: t is cached afterwards and its
\* counts grew, or it was not cached before.
IsRecordStep(t) ==
  /\ t \in DOMAIN cache'
  /\ t \in DOMAIN cache => Total(cache'[t]) > Total(cache[t])

Removed == DOMAIN cache \ DOMAIN cache'

\* C19: record_result(t, c, s) evicts only when t has no entry and the cache
\* holds max_size entries, and then removes exactly one entry; when t has an
\* entry nothing is evicted even if the cache is full; the entries of all
\* other remaining targets (counts, reputation, config, histories) are left
\* as they were.
C19_EvictsOnlyForNewTarget ==
  [][\A t \in Targets :
       IsRecordStep(t) =>
         /\ Removed # {} =>
              /\ t \notin DOMAIN cache
              /\ Cardinality(DOMAIN cache) >= max_size
              /\ Cardinality(Removed) = 1
         /\ (t \notin DOMAIN cache /\ Cardinality(DOMAIN cache) >= max_size
               /\ DOMAIN cache # {})
              => Cardinality(Removed) = 1
         /\ t \in DOMAIN cache => Removed = {}
         /\ \A u \in DOMAIN cache' \ {t} :
              u \in DOMAIN cache /\ cache'[u] = cache[u]]_vars

\* An eviction that left another target in the cache next to the new one.
C19_Witness ==
  /\ lastEvict.victim # NoKey
  /\ Cardinality(DOMAIN lastEvict.before) = 2
  /\ Cardinality(DOMAIN cache) = 2
  /\ \E u \in DOMAIN cache : u \in DOMAIN lastEvict.before

(***************************************************************************)
(* Claims about GREASE variation                                           *)
(***************************************************************************)
\* C20: over two or more connections to one target whose GREASE selection
\* reads the target's recent values from the cache, selects avoiding them
\* and tracks what it selected, the values used are not all the same value
\* whenever at least two values were injected in total and the template's
\* pool has more than one value.
C20_GreaseVaries ==
  (/\ customizer.kind = "BrowserRandomizer"
   /\ connections >= 2
   /\ Len(greaseLog) >= 2
   /\ Cardinality(Range(customizer.grease_values)) > 1)
    => Cardinality(Range(greaseLog)) >= 2

\* C21: when one inject_grease call selects both a cipher-suite value and
\* an extension value and the pool holds at least two distinct values, the
\* extension value differs from the cipher-suite value, whatever the recent
\* values are.
C21_ExtensionDiffersFromCipher ==
  (/\ customizer.kind = "BrowserRandomizer"
   /\ Cardinality(Range(customizer.grease_values)) >= 2)
    => \A i \in DOMAIN injected :
         Len(injected[i]) = 2 => injected[i][1] # injected[i][2]

C23_PaddingWithinRange ==
  (call.fn = "generate_padding_len" /\ ret.done)
    => /\ call.padding_distribution.min_length <= ret.value.value
       /\ ret.value.value <= call.padding_distribution.max_length

\* C24: generate_padding_len draws at most five candidates and returns the
\* first one that is not in the recent slice; when all five are in the recent
\* slice it returns the last candidate drawn.
C24_FirstUnusedOrLastCandidate ==
  (call.fn = "generate_padding_len" /\ ret.done)
    => LET drawn == ret.value.candidates
           recent == Range(call.previous_padding_lengths)
           unused == {i \in DOMAIN drawn : drawn[i] \notin recent}
       IN /\ Len(drawn) <= 5
          /\ unused # {} =>
               ret.value.value = drawn[CHOOSE i \in unused : \A j \in unused : i <= j]
          /\ (Len(drawn) = 5 /\ unused = {}) => ret.value.value = drawn[5]

\* C25: after shuffle_extensions returns Ok at a level other than None, a
\* pre_shared_key extension, if present, is the last element of the list,
\* whatever the input order was.
C25_PskLastAfterShuffle ==
  (/\ call.fn = "shuffle_extensions" /\ ret.done
   /\ call.level # "None" /\ ret.value.result = Ok)
    => \A i \in DOMAIN ret.value.extensions :
         ret.value.extensions[i] = "pre_shared_key" => i = Len(ret.value.extensions)

\* C26: when a template is active, after on_struct_ready returns Ok the
\* ClientHello payload holds a Padding extension whose length is the length
\* generate_padding_len sampled during that call.
C26_PayloadCarriesSampledPadding ==
  (/\ call.fn = "on_struct_ready" /\ ret.done
   /\ call.template # <<>> /\ ret.value.result = Ok)
    => \E i \in DOMAIN ret.value.payload :
         ret.value.payload[i] = [type |-> "Padding", length |-> ret.value.padding_len[1]]

\* C27: for every configuration TimingJitterConfig::new(min, max, p) accepts,
\* whenever apply() sleeps, the duration d in microseconds satisfies
\* min <= d <= max.
C27_SleepWithinBounds ==
  (/\ call.fn = "TimingJitterConfig" /\ ret.done
   /\ ret.value.config # <<>> /\ ret.value.slept # <<>>)
    => /\ call.min_micros <= ret.value.slept[1]
       /\ ret.value.slept[1] <= call.max_micros

\* C28: for each of the six extension codecs (ApplicationSettings,
\* DelegatedCredential, CompressCertificate, Padding, StatusRequest, SCT) and
\* every value x, decoding the encoding of x gives x back.
C28_DecodeInvertsEncode ==
  (call.fn = "round_trip" /\ ret.done) => ret.value.decoded = <<call.x>>

\* C29: when expected_version is not TLS 1.3 the validator returns ok for
\* every server_random (any length, any last 8 bytes) and every
\* negotiated_version.
C29_OkUnlessTls13Expected ==
  (result # Pending /\ expected_version # "TLSv1_3") => result = Ok

\* C29 witness: TLS 1.2 expected and negotiated, a 32-byte random ending in
\* the TLS 1.2 canary, and the validator has returned ok.
C29_Witness ==
  /\ result = Ok /\ expected_version = "TLSv1_2" /\ negotiated_version = "TLSv1_2"
  /\ Len(server_random) = 32 /\ SubSeq(server_random, 25, 32) = TLS12_DOWNGRADE_CANARY

\* C30: when expected_version is TLS 1.3 and server_random is not exactly 32
\* bytes long the validator fails with a PeerMisbehaved error, for every
\* negotiated_version.
C30_WrongLengthIsPeerMisbehaved ==
  (result # Pending /\ expected_version = "TLSv1_3" /\ Len(server_random) # 32)
    => result \in {"PeerMisbehaved(IllegalTlsInnerPlaintext)",
                   "PeerMisbehaved(AttemptedDowngradeToTls12WhenTls13IsSupported)"}

\* C30 witness: TLS 1.3 expected and negotiated, a 33-byte random, and the
\* validator has returned the PeerMisbehaved error.
C30_Witness ==
  /\ result = "PeerMisbehaved(IllegalTlsInnerPlaintext)"
  /\ expected_version = "TLSv1_3" /\ negotiated_version = "TLSv1_3"
  /\ Len(server_random) = 33

C33_ConversionKeepsKindAndMessage ==
  (call.fn = "from" /\ ret.done)
    => LET tag == [HookError |-> "Hook error: ",
                   RandomizationError |-> "Randomization error: ",
                   ExtensionError |-> "Extension error: ",
                   TemplateError |-> "Template error: ",
                   CacheError |-> "Cache error: ",
                   ValidationError |-> "Validation error: "]
       IN /\ \A i \in 1..2 :
               /\ ret.value[i].variant = "General"
               /\ ret.value[i].text
                    = "custls error: " \o tag[call.errors[i].kind] \o call.errors[i].msg
          /\ call.errors[1] # call.errors[2] => ret.value[1] # ret.value[2]

\* C33 witness: a CacheError whose message reads like the Hook tag and a
\* HookError with the plain message were converted, to different texts.
C33_Witness ==
  /\ call.fn = "from" /\ ret.done
  /\ call.errors = <<[kind |-> "CacheError", msg |-> "Hook error: a"],
                     [kind |-> "HookError", msg |-> "a"]>>
  /\ ret.value[1].text = "custls error: Cache error: Hook error: a"
  /\ ret.value[2].text = "custls error: Hook error: a"

\* C32: on a DefaultCustomizer built with enable_cache = false, after any
\* sequence of record_handshake_result, record_session,
\* mark_session_established, record_session_ticket, record_session_resumption
\* and clear_cache calls, get_session_config gives None for every session id
\* and invalidate_target gives false for every target.
C32_NoEffectWithoutCache ==
  (customizer.kind = "DefaultCustomizer" /\ ~customizer.enable_cache)
    => /\ \A id \in CallSessionIds : id \notin DOMAIN sessions
       /\ \A target \in CallTargets : target \notin DOMAIN cache

\* C32 witness: a customizer without cache on which every management call the
\* bound allows was made and has returned.
C32_Witness ==
  /\ customizer.kind = "DefaultCustomizer" /\ ~customizer.enable_cache
  /\ issued = MaxCalls
  /\ \A t \in Threads : thread[t].pc = "idle"
  /\ sessions = <<>> /\ cache = <<>>

\* C34: is_natural(exts) is false exactly when some blacklist set is entirely
\* contained in exts, or some whitelist set has at least one but not all of
\* its members in exts, or some dependency key is in exts while one of the
\* extensions it requires is not; otherwise it is true, and the result does
\* not depend on the order of exts.
C34_NaturalExactly ==
  (call.fn = "is_natural" /\ ret.done)
    => LET f == call.filter
           exts == Range(call.extensions)
           forbidden == \E b \in DOMAIN f.blacklist : Range(f.blacklist[b]) \subseteq exts
           partial == \E w \in DOMAIN f.whitelist :
                        /\ Range(f.whitelist[w]) \cap exts # {}
                        /\ ~(Range(f.whitelist[w]) \subseteq exts)
           missing == \E k \in DOMAIN f.dependencies :
                        k \in exts /\ ~(Range(f.dependencies[k]) \subseteq exts)
       IN /\ ret.value[1] = ~(forbidden \/ partial \/ missing)
          /\ ret.value[2] = ret.value[1]

\* C34 witness: key_share present without the supported_versions it requires,
\* no blacklist and no whitelist: rejected, in both orders.
C34_Witness ==
  /\ call.fn = "is_natural" /\ ret.done
  /\ call.filter = [blacklist |-> <<>>, whitelist |-> <<>>,
                    dependencies |-> "KeyShare" :> <<"SupportedVersions">>]
  /\ call.extensions = <<"ServerName", "KeyShare">>
  /\ call.reordered = <<"KeyShare", "ServerName">>
  /\ ret.value = <<FALSE, FALSE>>

\* C39: the extension_order of every built-in template (chrome_130,
\* firefox_135, safari_17, edge_130) is accepted by validate_extension_order:
\* no extension type twice, and pre_shared_key, if present, last.
C39_BuiltinOrdersAccepted ==
  (call.fn = "validate_template" /\ ret.done) => ret.value.tag = "Ok"

\* C35: for every target, also one without a cache entry, after
\* track_grease_value(t, v) (track_padding_length(t, v)) the slice
\* get_previous_grease_values(t) (get_previous_padding_lengths(t)) returns
\* contains v.
C35_TrackedValueIsRemembered ==
  /\ greaseLog # <<>> =>
       greaseLog[Len(greaseLog)] \in Range(get_previous_grease_values(cache, HistoryTarget))
  /\ paddingLog # <<>> =>
       paddingLog[Len(paddingLog)]
         \in Range(get_previous_padding_lengths(cache, HistoryTarget))

\* C37: get_working_fingerprint(t) changes nothing in the cache except the
\* last_used timestamp of t's entry: no entry is added or removed, and counts,
\* reputation, config and histories of every entry stay as they were; for a
\* target without an entry it changes nothing and returns None.
C37_LookupOnlyTouches ==
  [][\A target \in Targets, t \in Ticks :
       GetWorkingFingerprintOf(target, t) =>
         /\ DOMAIN cache' = DOMAIN cache
         /\ max_size' = max_size
         /\ \A u \in DOMAIN cache \ {target} : cache'[u] = cache[u]
         /\ target \in DOMAIN cache =>
              /\ cache'[target] = [cache[target] EXCEPT !.last_used = t]
              /\ WorkingFingerprint(cache, target) = cache[target].config
         /\ target \notin DOMAIN cache =>
              /\ cache' = cache
              /\ WorkingFingerprint(cache, target) = None]_vars

\* Two entries of which one was used after the other, next to a target
\* that has no entry.
C37_Witness ==
  /\ Cardinality(DOMAIN cache) = 2
  /\ DOMAIN cache # Targets
  /\ lastEvict = NoEvict
  /\ lowRun = NoRun
  /\ \E a, b \in DOMAIN cache :
       /\ cache[a].last_used > cache[b].last_used
       /\ cache[a].success_count + cache[a].failure_count = 1
       /\ a \in DOMAIN calls /\ calls[a].s + calls[a].f = 1

\* C36: when threads select a rotated template concurrently on one shared
\* DefaultCustomizer, every selection reads a distinct connection counter
\* value, and after n completed selections the counter has advanced by
\* exactly n.
C36_CounterReadOncePerSelection ==
  /\ connection_counter = Len(selections)
  /\ \A i, j \in 1..Len(selections) :
       i # j => selections[i].counter # selections[j].counter

\* Both threads have selected, and a third selection waits for the counter
\* while the other thread, which has read it, still holds it.
C36_Witness ==
  /\ customizer.kind = "DefaultCustomizer"
  /\ Len(selections) >= 2
  /\ conn[1].selected # <<>> /\ conn[2].selected # <<>>
  /\ \E t, u \in Threads :
       /\ thread[t].pc = "select"
       /\ thread[u].pc = "counter_read"
       /\ holder["connection_counter"] = u

(***************************************************************************)
(* Claims about selection at large counter values                          *)
(***************************************************************************)
\* C38: under WeightedRandom with the default rotation list, among any 100
\* consecutive template selections 40 return Chrome, 25 Firefox, 20 Safari
\* and 15 Edge.
C38_WeightsOverHundredSelections ==
  (/\ call.fn = "select_window" /\ ret.done
   /\ call.cfg.rotation_templates = <<>>) =>
    /\ ret.value.tag = "Counts"
    /\ ret.value.Chrome130 = 40 /\ ret.value.Firefox135 = 25
    /\ ret.value.Safari17 = 20 /\ ret.value.Edge130 = 15

\* C40: for every value of the connection counter, 0 up to the largest
\* machine word after which it wraps to 0, the selection under Random and
\* WeightedRandom computes counter * 2654435761 without arithmetic overflow
\* and returns a member of the rotation list.
C40_NoOverflowAndMember ==
  (/\ call.fn = "select_rotated_template" /\ ret.done
   /\ call.cfg.rotation_policy \in {"Random", "WeightedRandom"}) =>
    /\ ret.value.tag = "Some"
    /\ ~ret.value.overflow
    /\ \E i \in DOMAIN RotationTemplates(call.cfg) :
         RotationTemplates(call.cfg)[i] = ret.value.template

====
